---- MODULE Spec2Model ----
(***************************************************************************)
(* The ANT+ connection manager of trainerjs (src/ant/Node.ts, class Node), *)
(* its transport (src/ant/Driver.ts, class UsbDriver) and the message      *)
(* classes it uses (src/ant/Messages.ts).                                  *)
(*                                                                         *)
(* The program runs on the JavaScript event loop: the code between two     *)
(* awaits of external I/O (transferOut, transferIn, open, close,           *)
(* setTimeout) runs to completion, so every action below is one such       *)
(* segment, started by a public call or by the completion of an I/O.       *)
(***************************************************************************)
EXTENDS Integers, Sequences, FiniteSets, TLC

(* ----------------------------- bounds --------------------------------- *)
\* connect() calls in a behaviour; each starts one handshake and one cycle loop
MaxConnects == 2
\* connect() and queueMessage() calls in a behaviour, taken together
MaxCalls == 3
\* requests of the wait_until_tracking poll loop per handshake
MaxPolls == 2
\* clock ticks (one tick is 500 ms)
MaxTime == 2
\* networks of a configuration
MaxNetworks == 1

(* ------------------------ program constants --------------------------- *)
StartupMessageID == 111
ResetMessageID == 74
SetNetworkKeyMessageID == 70
AssignChannelMessageID == 66
SetChannelIdMessageID == 81
SetChannelHighPrioritySearchTimeoutMessageID == 68
SetChannelLowPrioritySearchTimeoutMessageID == 99
SetChannelPeriodMessageID == 67
SetChannelRfFrequencyMessageID == 69
OpenRxScanModeMessageID == 91
OpenChannelMessageID == 75
BroadcastMessageID == 78
ChannelStatusMessageID == 82
ChannelIdMessageID == 81
RequestMessageID == 77
ChannelEventID == 64
RESPONSE_NO_ERROR == 0
EVENT_TX == 3
EVENT_CHANNEL_CLOSED == 7
SEARCHING == 2
TRACKING == 3
\* an id buildMessage does not know
OpaqueID == 1

(* ------------------------------ messages ------------------------------ *)
\* A message is its id, the first three content bytes (0 where the content
\* is shorter), its wait_for_reply flag and, as the object's identity, the
\* caller that built it (src: 0 = a queueMessage caller or the device,
\* s > 0 = the handshake of connect call s) and a serial number (tag).
Message(id, c0, c1, c2, wait_for_reply) ==
    [id |-> id, c0 |-> c0, c1 |-> c1, c2 |-> c2, wait |-> wait_for_reply,
     src |-> 0, tag |-> 0]

Identified(m, src, tag) == [m EXCEPT !.src = src, !.tag = tag]

waitForReply(m) == m.wait

StartupMessage == Message(StartupMessageID, 0, 0, 0, FALSE)
ResetMessage == Message(ResetMessageID, 0, 0, 0, TRUE)
SetNetworkKeyMessage(number) == Message(SetNetworkKeyMessageID, number, 0, 0, TRUE)
AssignChannelMessage(number, network) == Message(AssignChannelMessageID, number, 0, network, TRUE)
SetChannelIdMessage(number) == Message(SetChannelIdMessageID, number, 0, 0, TRUE)
SetChannelHighPrioritySearchTimeoutMessage(number) ==
    Message(SetChannelHighPrioritySearchTimeoutMessageID, number, 0, 0, TRUE)
SetChannelLowPrioritySearchTimeoutMessage(number) ==
    Message(SetChannelLowPrioritySearchTimeoutMessageID, number, 0, 0, TRUE)
SetChannelPeriodMessage(number) == Message(SetChannelPeriodMessageID, number, 0, 0, TRUE)
SetChannelRfFrequencyMessage(number) == Message(SetChannelRfFrequencyMessageID, number, 0, 0, TRUE)
OpenRxScanModeMessage == Message(OpenRxScanModeMessageID, 0, 0, 0, TRUE)
OpenChannelMessage(number) == Message(OpenChannelMessageID, number, 0, 0, TRUE)
BroadcastMessage(number) == Message(BroadcastMessageID, number, 0, 0, TRUE)
ChannelStatusMessage(number, status) == Message(ChannelStatusMessageID, number, status, 0, FALSE)
RequestMessage(number, message_id) == Message(RequestMessageID, number, message_id, 0, TRUE)
ChannelEvent(number, initiating_message_id, response_code) ==
    Message(ChannelEventID, number, initiating_message_id, response_code, TRUE)

getEventCode(m) == m.c2
getStatus(m) == m.c1 % 4

isReplyOfBaseClass(out, in) ==
    in.id = ChannelEventID /\ getEventCode(in) = RESPONSE_NO_ERROR

\* Message.isReply and its overrides in ResetMessage, BroadcastMessage and
\* RequestMessage (whose side effect, the decode callback, is RequestCallback).
isReply(out, in) ==
    IF out.id = ResetMessageID THEN in.id = StartupMessageID
    ELSE IF out.id = BroadcastMessageID
        THEN in.id = ChannelEventID /\ getEventCode(in) = EVENT_TX
    ELSE IF out.id = RequestMessageID THEN in.id = out.c1
    ELSE in.id = ChannelEventID /\ getEventCode(in) = RESPONSE_NO_ERROR

(* ------------------------------- frames ------------------------------- *)
\* Below the connection manager a message is its class, its id and its
\* whole content, a sequence of numbers.
SYNC_BYTE == 164

\* Message.checksumFunction: prev ^ cur on non-negative numbers.
RECURSIVE checksumFunction(_, _)
checksumFunction(prev, cur) ==
    IF prev = 0 THEN cur
    ELSE IF cur = 0 THEN prev
    ELSE 2 * checksumFunction(prev \div 2, cur \div 2) + ((prev + cur) % 2)

\* The left fold of checksumFunction over numbers[first..last], the
\* accumulator handed from each element to the next.  The range is halved
\* and the fold of the left half is a number before the right half starts,
\* which keeps the evaluation shallow.
RECURSIVE reduceRange(_, _, _, _)
reduceRange(numbers, first, last, accumulator) ==
    IF first > last THEN accumulator
    ELSE IF first = last THEN checksumFunction(accumulator, numbers[first])
    ELSE LET middle == (first + last) \div 2
             left == reduceRange(numbers, first, middle, accumulator)
         IN IF left \in Nat THEN reduceRange(numbers, middle + 1, last, left)
            ELSE left

\* Array.prototype.reduce(Message.checksumFunction, initial)
reduce(numbers, initial) == reduceRange(numbers, 1, Len(numbers), initial)

\* new Uint8Array(numbers): every element is stored modulo 2^8.
Uint8Array(numbers) == [i \in DOMAIN numbers |-> numbers[i] % 256]

\* new Message(id, content, wait_for_reply) and the constructors of its
\* subclasses, which pass the content on.
NewMessage(class, id, content, wait_for_reply) ==
    [class |-> class, id |-> id, content |-> content, wait |-> wait_for_reply]

\* the static Message.checksum(id, content)
MessageChecksum(id, content) ==
    reduce(<<SYNC_BYTE, Len(content), id>> \o content, 0)

header(m) == <<SYNC_BYTE, Len(m.content), m.id>>

checksumOfContent(m) == reduce(m.content, 0)

checksum(m) == reduce(header(m) \o m.content, 0)

encode(m) == Uint8Array(header(m) \o m.content \o <<checksum(m)>>)

\* An error thrown in place of a message.
Thrown(error) == [class |-> error]

buildMessageOfKnownId(id, content, message_checksum) ==
    IF MessageChecksum(id, content) # message_checksum THEN Thrown("MessageChecksumError")
    ELSE IF id = BroadcastMessageID THEN NewMessage("BroadcastMessage", id, content, TRUE)
    ELSE IF id = StartupMessageID THEN NewMessage("StartupMessage", id, content, FALSE)
    ELSE IF id = ChannelStatusMessageID
        THEN NewMessage("ChannelStatusMessage", id, content, FALSE)
    ELSE IF id = ChannelIdMessageID THEN NewMessage("ChannelIdMessage", id, content, TRUE)
    ELSE IF id = ChannelEventID THEN NewMessage("ChannelEvent", id, content, TRUE)
    ELSE Thrown("UnknownMessageIdError")

\* buildMessage: the error, or the message of the class of the id.
buildMessage(id, content, message_checksum) ==
    IF MessageChecksum(id, content) # message_checksum THEN Thrown("MessageChecksumError")
    ELSE IF id = BroadcastMessageID THEN NewMessage("BroadcastMessage", id, content, TRUE)
    ELSE IF id = StartupMessageID THEN NewMessage("StartupMessage", id, content, FALSE)
    ELSE IF id = ChannelStatusMessageID
        THEN NewMessage("ChannelStatusMessage", id, content, FALSE)
    ELSE IF id = ChannelIdMessageID THEN NewMessage("ChannelIdMessage", id, content, TRUE)
    ELSE IF id = ChannelEventID THEN NewMessage("ChannelEvent", id, content, TRUE)
    ELSE NewMessage("Message", id, content, TRUE)

(* --------------------------- configuration ---------------------------- *)
\* ChannelConfig without its number: the optional members that decide the
\* frames of the handshake.
ChannelOptions ==
    [scan : BOOLEAN, hp_search_timeout : BOOLEAN, lp_search_timeout : BOOLEAN,
     wait_until_tracking : BOOLEAN]

\* The channel lists of the configurations: none, every single channel, and
\* two channels of which each has none or all of the optional members or
\* is a scan channel.
ChannelProfiles ==
    {c \in ChannelOptions :
        /\ c.hp_search_timeout = c.lp_search_timeout
        /\ c.lp_search_timeout = c.wait_until_tracking
        /\ c.scan => ~c.wait_until_tracking}

ChannelLists ==
    {<<>>} \cup {<<c>> : c \in ChannelOptions}
    \cup {<<c, d>> : c \in ChannelProfiles, d \in ChannelProfiles}

\* NodeConfig after the constructor (reset is defined); the channel at
\* position k has number k, network i has number i - 1.
NodeConfig == [reset : BOOLEAN, networks : 0..MaxNetworks, channels : ChannelLists]

\* The configurations without networks and channels: the handshake is the
\* optional reset.
ResetOnlyConfig == {c \in NodeConfig : c.networks = 0 /\ c.channels = <<>>}

(* ------------------------------- state -------------------------------- *)
VARIABLES
    configuration,  \* Node.configuration, immutable after construction
    is_open,        \* UsbDriver.is_open
    closing,        \* a UsbDriver.close() is between its check and its last line
    connected,      \* Node.connected
    out_queue,      \* Node.out_queue: QueuedMessage[]
    pending,        \* Node.pending: PendingMessage[]
    conn,           \* per connect() call: where the call is
    hs,             \* per connect() call: its initializeANTConnection()
    cyc,            \* per connect() call: the sendReceiveCycle loop it started
    nqueued,        \* queueMessage() calls so far
    now,            \* the clock read by new Date(), in ticks of 500 ms
    q_wire,         \* the queue entries written to the transport, in order
    ev,             \* what the last step did
    tx,             \* the message given to UsbDriver.sendMessage, whether it was,
                    \* and the position of the byte the link changed (0: none)
    out_endpoint,   \* the data of the last transferOut(1, data)
    in_endpoint,    \* the bytes the device holds for transferIn(1, n)
    rcv,            \* the UsbDriver.receiveMessage() call
    data,           \* UsbDriver.data of the variant that buffers what it reads
    decoded,        \* what the accessors of the message received return
    drv,            \* the open() calls in progress on the transport, and the last
                    \* of its open, close and sendMessage steps with what it threw
    bushido_data,   \* BushidoTrainer.data: speed in tenths of a km/h, slope in
                    \* hundredths of a percent
    is_paused,      \* BushidoTrainer.is_paused
    last_button_code,       \* BushidoTrainer.last_button_code
    last_button_timestamp,  \* BushidoTrainer.last_button_timestamp
    last_heart_rate,        \* BushidoTrainer.last_heart_rate
    clock,          \* what Date.now() returns, in ms
    called,         \* the listeners the last step called, in order
    disconnecting   \* the resolve callbacks of the BushidoTrainer.disconnect()
                    \* calls that await disconnectFromHeadUnit()

\* the state of the connection manager and the state below it
node == <<configuration, is_open, closing, connected, out_queue, pending, conn,
          hs, cyc, nqueued, now, q_wire, ev>>

frames == <<tx, out_endpoint, in_endpoint, rcv, data, decoded, drv>>

\* the state the trainer adds to the connection manager it extends
trainer == <<bushido_data, is_paused, last_button_code, last_button_timestamp,
             last_heart_rate, clock, called, disconnecting>>

\* the fields of the trainer and the listeners called
bushido == <<bushido_data, is_paused, last_button_code, last_button_timestamp,
             last_heart_rate, clock, called>>

vars == <<node, frames, trainer>>

Sessions == 1..MaxConnects

NoCallback == 0

\* What one step does: the frames it writes to the transport, the queue
\* entries it shifts, the message it receives, the messages it hands to
\* processMessage, the callbacks it invokes, the errors that reach the catch
\* block of the cycle and the errors the step raises to its caller or as an
\* unhandled rejection.
NoEvent ==
    [written |-> <<>>, dequeued |-> <<>>, received |-> <<>>,
     processed |-> <<>>, fired |-> <<>>, caught |-> <<>>, raised |-> <<>>]

(* --------------------------- the handshake ---------------------------- *)
Step(message, then) == [message |-> message, then |-> then]

\* A channel set up with the period before the frequency.
ChannelStepsPeriodFirst(number, c) ==
    <<Step(AssignChannelMessage(number, 0), "next"),
      Step(SetChannelIdMessage(number), "next"),
      Step(SetChannelPeriodMessage(number), "next"),
      Step(SetChannelRfFrequencyMessage(number), "next")>>
    \o (IF c.hp_search_timeout
        THEN <<Step(SetChannelHighPrioritySearchTimeoutMessage(number), "next")>>
        ELSE <<>>)
    \o (IF c.lp_search_timeout
        THEN <<Step(SetChannelLowPrioritySearchTimeoutMessage(number), "next")>>
        ELSE <<>>)
    \o (IF c.scan
        THEN <<Step(OpenRxScanModeMessage, "next")>>
        ELSE <<Step(OpenChannelMessage(number), "next")>>
             \o (IF c.wait_until_tracking
                 THEN <<Step(RequestMessage(number, ChannelStatusMessageID), "poll")>>
                 ELSE <<>>))

ChannelSteps(number, c) ==
    <<Step(AssignChannelMessage(number, 0), "next"),
      Step(SetChannelIdMessage(number), "next"),
      Step(SetChannelRfFrequencyMessage(number), "next"),
      Step(SetChannelPeriodMessage(number), "next")>>
    \o (IF c.hp_search_timeout
        THEN <<Step(SetChannelHighPrioritySearchTimeoutMessage(number), "next")>>
        ELSE <<>>)
    \o (IF c.lp_search_timeout
        THEN <<Step(SetChannelLowPrioritySearchTimeoutMessage(number), "next")>>
        ELSE <<>>)
    \o (IF c.scan
        THEN <<Step(OpenRxScanModeMessage, "next")>>
        ELSE <<Step(OpenChannelMessage(number), "next")>>
             \o (IF c.wait_until_tracking
                 THEN <<Step(RequestMessage(number, ChannelStatusMessageID), "poll")>>
                 ELSE <<>>))

RECURSIVE AllChannelSteps(_, _)
AllChannelSteps(channels, k) ==
    IF k > Len(channels) THEN <<>>
    ELSE ChannelSteps(k, channels[k]) \o AllChannelSteps(channels, k + 1)

\* The awaited statements of initializeANTConnection in program order: the
\* message each sends and what follows its transmission ("next": the next
\* statement, "sleep": the 500 ms timer, "poll": the timer and the test of
\* the while loop around it).
initializeANTConnection(config) ==
    (IF config.reset THEN <<Step(ResetMessage, "sleep")>> ELSE <<>>)
    \o [i \in 1..config.networks |-> Step(SetNetworkKeyMessage(i - 1), "next")]
    \o AllChannelSteps(config.channels, 1)

(* ------------------------- send and receive --------------------------- *)
\* UsbDriver.sendMessage up to its await: NotOpenError, or one frame written.
DriverSendMessage(open, message) ==
    IF open THEN [raised |-> "none", written |-> <<message>>]
    ELSE [raised |-> "NotOpenError", written |-> <<>>]

\* A sendMessage that registers nothing before it writes.
sendMessageUnregistered(pend, open, message, callback, date) ==
    LET sent == DriverSendMessage(open, message)
    IN [pending |-> pend, written |-> sent.written, raised |-> sent.raised, fired |-> <<>>]

\* Node.sendMessage up to the await of the transport's write.
sendMessage(pend, open, message, callback, date) ==
    LET registered ==
            IF waitForReply(message)
            THEN Append(pend, [message |-> message, callback |-> callback,
                               pending_since |-> date])
            ELSE pend
        sent == DriverSendMessage(open, message)
    IN [pending |-> registered, written |-> sent.written,
        raised |-> sent.raised, fired |-> <<>>]

\* A receive that completes the first pending entry the message answers,
\* whatever its position.
RECURSIVE receiveMessageAny(_, _)
receiveMessageAny(pend, in_message) ==
    IF pend = <<>> THEN [pending |-> pend, matched |-> <<>>, fired |-> <<>>]
    ELSE IF isReply(Head(pend).message, in_message)
    THEN [pending |-> Tail(pend), matched |-> <<Head(pend)>>,
          fired |-> IF Head(pend).callback # NoCallback THEN <<Head(pend).callback>> ELSE <<>>]
    ELSE LET r == receiveMessageAny(Tail(pend), in_message)
         IN [r EXCEPT !.pending = <<Head(pend)>> \o @]

\* Node.receiveMessage after the transport returned in_message.
receiveMessage(pend, in_message) ==
    IF Len(pend) > 0
    THEN LET pending_message == Head(pend)
         IN IF isReply(pending_message.message, in_message)
            THEN [pending |-> Tail(pend),
                  matched |-> <<pending_message>>,
                  fired |-> IF pending_message.callback # NoCallback
                            THEN <<pending_message.callback>> ELSE <<>>]
            ELSE [pending |-> <<pending_message>> \o Tail(pend),
                  matched |-> <<>>, fired |-> <<>>]
    ELSE [pending |-> pend, matched |-> <<>>, fired |-> <<>>]


(* ---------------------- initializeANTConnection ----------------------- *)
NoHandshake == [pc |-> "none", step |-> 0, wait |-> FALSE, polls |-> 0, frames |-> <<>>]

\* Statement i of initializeANTConnection of connect call s, up to its await:
\* the end of the function, or sendMessage(new ...Message(...)) with no
\* callback.  Entering the poll statement from the statement before it
\* sets wait (the loop is in the plan only if wait_until_tracking is true).
HsEnter(h, s, i, pend, open, date) ==
    LET plan == initializeANTConnection(configuration)
    IN IF i > Len(plan)
       THEN [h |-> [h EXCEPT !.pc = "done", !.step = i], pending |-> pend,
             written |-> <<>>, raised |-> "none"]
       ELSE LET message == Identified(plan[i].message, s, Len(h.frames) + 1)
                r == sendMessage(pend, open, message, NoCallback, date)
                fresh == i # h.step
                h1 == [h EXCEPT !.step = i,
                                !.wait = IF fresh THEN plan[i].then = "poll" ELSE @,
                                !.polls = IF plan[i].then # "poll" THEN 0
                                          ELSE IF fresh THEN 1 ELSE @ + 1]
            IN IF r.raised # "none"
               THEN [h |-> [h1 EXCEPT !.pc = "failed"], pending |-> r.pending,
                     written |-> <<>>, raised |-> r.raised]
               ELSE [h |-> [h1 EXCEPT !.pc = "tx", !.frames = Append(@, message)],
                     pending |-> r.pending, written |-> r.written, raised |-> "none"]

\* The decode callback of the poll loop's RequestMessage, run by isReply on a
\* match: it assigns the loop's variable wait.  The variable is read only
\* while the handshake that built the request is still in that loop.
RequestCallback(h, request, reply) ==
    LET plan == initializeANTConnection(configuration)
    IN IF /\ h.pc \in {"tx", "sleep"}
          /\ plan[h.step].then = "poll"
          /\ plan[h.step].message.c0 = request.c0
       THEN [h EXCEPT !.wait = getStatus(reply) # TRACKING]
       ELSE h

(* -------------------------- sendReceiveCycle -------------------------- *)
\* The try block of sendReceiveCycle up to the await of the transport:
\* UsbDriver.receiveMessage raises NotOpenError at once when the transport is
\* not open; the catch rethrows it or not, and finally reschedules the cycle.
StartReceive(open) ==
    IF open THEN [pc |-> "rx", raised |-> "none"]
    ELSE [pc |-> "timer", raised |-> "NotOpenError"]

\* A queue that hands out its newest entry.
Pop(queue) == [entry |-> queue[Len(queue)], rest |-> SubSeq(queue, 1, Len(queue) - 1)]

\* out_queue.shift() on a non-empty queue.
Shift(queue) == [entry |-> Head(queue), rest |-> Tail(queue)]

\* A cycle that only receives.
CycleBodyReceiveOnly(s, pend, queue, open, date) ==
    LET rx == StartReceive(open)
    IN [pc |-> rx.pc, pending |-> pend, out_queue |-> queue,
        written |-> <<>>, dequeued |-> <<>>, fired |-> <<>>,
        raised |-> rx.raised]

\* sendReceiveCycle of loop s from its first line, with connected true, up to
\* its first await.
CycleBody(s, pend, queue, open, date) ==
    IF Len(queue) > 0
    THEN LET entry == Shift(queue).entry
             rest == Shift(queue).rest
             r == sendMessage(pend, open, entry.message, entry.callback, date)
         IN IF r.raised # "none"
            THEN [pc |-> "dead", pending |-> r.pending, out_queue |-> rest,
                  written |-> <<>>, dequeued |-> <<entry>>, fired |-> r.fired,
                  raised |-> r.raised]
            ELSE [pc |-> "tx", pending |-> r.pending, out_queue |-> rest,
                  written |-> r.written, dequeued |-> <<entry>>, fired |-> r.fired,
                  raised |-> "none"]
    ELSE LET rx == StartReceive(open)
         IN [pc |-> rx.pc, pending |-> pend, out_queue |-> queue,
             written |-> <<>>, dequeued |-> <<>>, fired |-> <<>>,
             raised |-> rx.raised]

\* The errors of a first segment of sendReceiveCycle that went through its
\* catch block: those of the receive, not those of the send.
CycleCaught(c) == IF c.pc = "timer" /\ c.raised # "none" THEN <<c.raised>> ELSE <<>>


\* The record of a queue entry the cycle of loop s wrote to the transport.
Wired(s, c) ==
    IF c.written # <<>>
    THEN <<[message |-> c.dequeued[1].message, callback |-> c.dequeued[1].callback,
            by |-> s]>>
    ELSE <<>>

(* ------------------------------- inputs ------------------------------- *)
\* What a queueMessage caller passes: a broadcast (acknowledged by EVENT_TX)
\* with or without a callback, or a message built with wait_for_reply = false
\* with a callback.
Queueable ==
    {<<BroadcastMessage(1), TRUE>>, <<BroadcastMessage(1), FALSE>>,
     <<Message(OpaqueID, 0, 0, 0, FALSE), TRUE>>}

\* What buildMessage returns for the frames the device sends.
Inbound ==
    {StartupMessage,
     ChannelEvent(1, AssignChannelMessageID, RESPONSE_NO_ERROR),
     ChannelEvent(1, 1, EVENT_TX),
     ChannelStatusMessage(1, SEARCHING),
     ChannelStatusMessage(1, TRACKING)}

(* -------------------------------- Init -------------------------------- *)
InitWith(configurations) ==
    /\ configuration \in configurations
    /\ is_open = FALSE
    /\ closing = FALSE
    /\ connected = FALSE
    /\ out_queue = <<>>
    /\ pending = <<>>
    /\ conn = [s \in Sessions |-> "none"]
    /\ hs = [s \in Sessions |-> NoHandshake]
    /\ cyc = [s \in Sessions |-> "none"]
    /\ nqueued = 0
    /\ now = 0
    /\ q_wire = <<>>
    /\ ev = NoEvent

\* No receiveMessage() call on the transport.
NotReceiving == [pc |-> "idle", message_size |-> 0, in_message |-> [class |-> "none"]]

\* No accessor was called.
NotDecoded == [class |-> "none"]

\* No call was made on the transport itself.
NoCalls == [opening |-> 0, last |-> "none", thrown |-> "none"]

\* Nothing below the connection manager is looked at.
NoFrames ==
    /\ tx = [message |-> [class |-> "none"], sent |-> TRUE, changed |-> 0]
    /\ out_endpoint = <<>>
    /\ in_endpoint = <<>>
    /\ rcv = NotReceiving
    /\ data = <<>>
    /\ decoded = NotDecoded
    /\ drv = NoCalls

\* new BushidoData(): what the trainer knows before the head unit reports
NewBushidoData ==
    [speed |-> 0, cadence |-> 0, power |-> 0, distance |-> 0, break_temp |-> 0,
     heart_rate |-> 0, slope |-> 0, weight |-> 70]

\* The fields of a new BushidoTrainer.  No listener was called.
NewTrainer ==
    /\ bushido_data = NewBushidoData
    /\ is_paused = FALSE
    /\ last_button_code = -1
    /\ last_button_timestamp = 0
    /\ last_heart_rate = 0
    /\ clock = 0
    /\ called = <<>>
    /\ disconnecting = {}

Init == InitWith(ResetOnlyConfig) /\ NoFrames /\ NewTrainer

InitHandshake == InitWith(NodeConfig) /\ NoFrames /\ NewTrainer

\* The public calls connect() and queueMessage() made so far.
CallsMade == Cardinality({s \in Sessions : conn[s] # "none"}) + nqueued

(* ------------------------------ connect ------------------------------- *)
\* connect() from "const init_promise = ..." to its return: the handshake
\* runs up to its first await, connected is set, and the first iteration of
\* the cycle runs up to its first await.
ConnectBody(s, open) ==
    LET h == HsEnter(NoHandshake, s, 1, pending, open, now)
        c == CycleBody(s, h.pending, out_queue, open, now)
    IN /\ conn' = [conn EXCEPT ![s] = "done"]
       /\ hs' = [hs EXCEPT ![s] = h.h]
       /\ connected' = TRUE
       /\ cyc' = [cyc EXCEPT ![s] = c.pc]
       /\ pending' = c.pending
       /\ out_queue' = c.out_queue
       /\ q_wire' = q_wire \o Wired(s, c)
       /\ ev' = [NoEvent EXCEPT
                    !.written = h.written \o c.written,
                    !.dequeued = c.dequeued,
                    !.fired = c.fired,
                    !.caught = CycleCaught(c),
                    !.raised = (IF h.raised # "none" THEN <<h.raised>> ELSE <<>>)
                               \o (IF c.raised # "none" THEN <<c.raised>> ELSE <<>>)]

\* connect(): with the transport open the body runs at once, otherwise
\* after the await of driver.open().
Connect(s) ==
    /\ conn[s] = "none"
    /\ \A r \in Sessions : r < s => conn[r] # "none"
    /\ CallsMade < MaxCalls
    /\ IF is_open
       THEN /\ ConnectBody(s, TRUE)
            /\ UNCHANGED <<trainer, frames, configuration, is_open, closing, nqueued, now>>
       ELSE /\ conn' = [conn EXCEPT ![s] = "opening"]
            /\ ev' = NoEvent
            /\ UNCHANGED <<trainer, frames, configuration, is_open, closing, connected, out_queue,
                           pending, hs, cyc, nqueued, now, q_wire>>

\* UsbDriver.open() returns: is_open is true, or false when requesting or
\* claiming the device failed (the catch swallows the error).
OpenDone(s, ok) ==
    /\ conn[s] = "opening"
    /\ is_open' = ok
    /\ ConnectBody(s, ok)
    /\ UNCHANGED <<trainer, frames, configuration, closing, nqueued, now>>

(* ----------------------------- disconnect ----------------------------- *)
\* A disconnect that does not test the connected flag.
DisconnectUnchecked(close_driver) ==
    /\ closing' = (closing \/ (close_driver /\ is_open))
    /\ out_queue' = <<>>
    /\ connected' = FALSE
    /\ ev' = [NoEvent EXCEPT
                 !.raised = IF close_driver /\ ~is_open
                            THEN <<"NotOpenError">> ELSE <<>>]
    /\ UNCHANGED <<trainer, frames, configuration, is_open, pending, conn, hs, cyc, nqueued,
                   now, q_wire>>

\* disconnect(close_driver); driver.close() is called and not awaited.
Disconnect(close_driver) ==
    IF ~connected
    THEN /\ ev' = [NoEvent EXCEPT !.raised = <<"NotConnectedError">>]
         /\ UNCHANGED <<trainer, frames, configuration, is_open, closing, connected, out_queue,
                        pending, conn, hs, cyc, nqueued, now, q_wire>>
    ELSE /\ closing' = (closing \/ (close_driver /\ is_open))
         /\ out_queue' = <<>>
         /\ connected' = FALSE
         /\ ev' = [NoEvent EXCEPT
                      !.raised = IF close_driver /\ ~is_open
                                 THEN <<"NotOpenError">> ELSE <<>>]
         /\ UNCHANGED <<trainer, frames, configuration, is_open, pending, conn, hs, cyc, nqueued,
                        now, q_wire>>

\* UsbDriver.close() after its awaits.
CloseDone ==
    /\ closing
    /\ is_open' = FALSE
    /\ closing' = FALSE
    /\ ev' = NoEvent
    /\ UNCHANGED <<trainer, frames, configuration, connected, out_queue, pending, conn, hs, cyc,
                   nqueued, now, q_wire>>

(* ---------------------------- queueMessage ---------------------------- *)
QueueMessage(message, with_callback) ==
    /\ CallsMade < MaxCalls
    /\ nqueued' = nqueued + 1
    /\ out_queue' = Append(out_queue,
                           [message |-> Identified(message, 0, nqueued + 1),
                            callback |-> IF with_callback THEN nqueued + 1
                                         ELSE NoCallback])
    /\ ev' = NoEvent
    /\ UNCHANGED <<trainer, frames, configuration, is_open, closing, connected, pending, conn, hs,
                   cyc, now, q_wire>>


(* ------------------------- the cycle's steps -------------------------- *)
\* The timer set by finally runs sendReceiveCycle again: nothing happens
\* when connected is false, and the loop is over.
CycleTimer(s) ==
    /\ cyc[s] = "timer"
    /\ IF connected
       THEN LET c == CycleBody(s, pending, out_queue, is_open, now)
            IN /\ cyc' = [cyc EXCEPT ![s] = c.pc]
               /\ pending' = c.pending
               /\ out_queue' = c.out_queue
               /\ q_wire' = q_wire \o Wired(s, c)
               /\ ev' = [NoEvent EXCEPT
                            !.written = c.written, !.dequeued = c.dequeued,
                            !.fired = c.fired,
                            !.caught = CycleCaught(c),
                            !.raised = IF c.raised # "none" THEN <<c.raised>> ELSE <<>>]
       ELSE /\ cyc' = [cyc EXCEPT ![s] = "none"]
            /\ ev' = NoEvent
            /\ UNCHANGED <<pending, out_queue, q_wire>>
    /\ UNCHANGED <<trainer, frames, configuration, is_open, closing, connected, conn, hs,
                   nqueued, now>>

\* The write of the cycle's sendMessage completes: the try block starts the
\* receive.
CycleTxDone(s) ==
    /\ cyc[s] = "tx"
    /\ is_open
    /\ LET rx == StartReceive(is_open)
       IN /\ cyc' = [cyc EXCEPT ![s] = rx.pc]
          /\ ev' = [NoEvent EXCEPT
                       !.raised = IF rx.raised # "none" THEN <<rx.raised>> ELSE <<>>]
    /\ UNCHANGED <<trainer, frames, configuration, is_open, closing, connected, out_queue, pending,
                   conn, hs, nqueued, now, q_wire>>

\* The write fails because the device was closed under it: sendMessage
\* raises outside the try block and the loop is not rescheduled.
CycleTxFail(s) ==
    /\ cyc[s] = "tx"
    /\ ~is_open
    /\ cyc' = [cyc EXCEPT ![s] = "dead"]
    /\ ev' = [NoEvent EXCEPT !.raised = <<"TransferError">>]
    /\ UNCHANGED <<trainer, frames, configuration, is_open, closing, connected, out_queue, pending,
                   conn, hs, nqueued, now, q_wire>>

\* A cycle that hands processMessage only what completed no pending entry.
processedUnlessReply(in_message, matched) ==
    IF matched # <<>> THEN <<>> ELSE <<in_message>>

\* What the try block hands to processMessage once Node.receiveMessage has
\* returned in_message: the message, whether it matched or not.
processed(in_message, matched) == <<in_message>>

\* The transport returns in_message: Node.receiveMessage tests the oldest
\* pending entry, the cycle hands the message to processMessage and finally
\* reschedules itself.  A callback that is the resolve of a
\* BushidoTrainer.disconnect() call resumes that call, which runs
\* super.disconnect() before the cycle goes on.
CycleRxDone(s, in_message) ==
    /\ cyc[s] = "rx"
    /\ is_open
    /\ LET r == receiveMessage(pending, in_message)
           resolved == {c \in disconnecting : \E k \in DOMAIN r.fired : r.fired[k] = c}
       IN /\ pending' = r.pending
          /\ disconnecting' = disconnecting \ resolved
          /\ connected' = (connected /\ resolved = {})
          /\ out_queue' = IF resolved # {} /\ connected THEN <<>> ELSE out_queue
          /\ hs' = IF /\ r.matched # <<>>
                      /\ r.matched[1].message.id = RequestMessageID
                      /\ r.matched[1].message.src \in Sessions
                   THEN [hs EXCEPT ![r.matched[1].message.src] =
                            RequestCallback(@, r.matched[1].message, in_message)]
                   ELSE hs
          /\ ev' = [NoEvent EXCEPT
                       !.received = <<in_message>>,
                       !.processed = processed(in_message, r.matched),
                       !.fired = r.fired,
                       !.raised = IF resolved # {} /\ ~connected
                                  THEN <<"NotConnectedError">> ELSE <<>>]
    /\ cyc' = [cyc EXCEPT ![s] = "timer"]
    /\ UNCHANGED <<bushido, frames, configuration, is_open, closing, conn,
                   nqueued, now, q_wire>>

\* A cycle that a failed receive ends while connected: the error leaves the
\* loop before the timer is set.
CycleRxFailFatal(s) ==
    /\ cyc[s] = "rx"
    /\ cyc' = [cyc EXCEPT ![s] = IF connected THEN "dead" ELSE "timer"]
    /\ ev' = [NoEvent EXCEPT
                 !.caught = IF is_open THEN <<"MessageChecksumError">>
                            ELSE <<"TransferError">>,
                 !.raised = IF ~connected THEN <<>>
                            ELSE IF is_open THEN <<"MessageChecksumError">>
                            ELSE <<"TransferError">>]
    /\ UNCHANGED <<trainer, frames, configuration, is_open, closing, connected, out_queue, pending,
                   conn, hs, nqueued, now, q_wire>>

\* A cycle whose catch block rethrows whatever the connected flag says.
CycleRxFailRethrow(s) ==
    /\ cyc[s] = "rx"
    /\ cyc' = [cyc EXCEPT ![s] = "timer"]
    /\ ev' = [NoEvent EXCEPT
                 !.caught = IF is_open THEN <<"MessageChecksumError">>
                            ELSE <<"TransferError">>,
                 !.raised = IF is_open THEN <<"MessageChecksumError">>
                            ELSE <<"TransferError">>]
    /\ UNCHANGED <<trainer, frames, configuration, is_open, closing, connected, out_queue, pending,
                   conn, hs, nqueued, now, q_wire>>

\* The receive fails (buildMessage raises MessageChecksumError, or the
\* device was closed): the catch block rethrows the error while connected
\* and swallows it otherwise, and finally reschedules the cycle.
CycleRxFail(s) ==
    /\ cyc[s] = "rx"
    /\ cyc' = [cyc EXCEPT ![s] = "timer"]
    /\ ev' = [NoEvent EXCEPT
                 !.caught = IF is_open THEN <<"MessageChecksumError">>
                            ELSE <<"TransferError">>,
                 !.raised = IF ~connected THEN <<>>
                            ELSE IF is_open THEN <<"MessageChecksumError">>
                            ELSE <<"TransferError">>]
    /\ UNCHANGED <<trainer, frames, configuration, is_open, closing, connected, out_queue, pending,
                   conn, hs, nqueued, now, q_wire>>

(* ----------------------- the handshake's steps ------------------------ *)
HsAdvance(s, i) ==
    LET h == HsEnter(hs[s], s, i, pending, is_open, now)
    IN /\ hs' = [hs EXCEPT ![s] = h.h]
       /\ pending' = h.pending
       /\ ev' = [NoEvent EXCEPT
                    !.written = h.written,
                    !.raised = IF h.raised # "none" THEN <<h.raised>> ELSE <<>>]

\* The write of a handshake statement completes: the next statement runs,
\* or the 500 ms timer is set.
HsTxDone(s) ==
    /\ hs[s].pc = "tx"
    /\ is_open
    /\ IF initializeANTConnection(configuration)[hs[s].step].then = "next"
       THEN HsAdvance(s, hs[s].step + 1)
       ELSE /\ hs' = [hs EXCEPT ![s].pc = "sleep"]
            /\ ev' = NoEvent
            /\ UNCHANGED pending
    /\ UNCHANGED <<trainer, frames, configuration, is_open, closing, connected, out_queue, conn,
                   cyc, nqueued, now, q_wire>>

\* The write fails because the device was closed under it: the promise of
\* initializeANTConnection is rejected.
HsTxFail(s) ==
    /\ hs[s].pc = "tx"
    /\ ~is_open
    /\ hs' = [hs EXCEPT ![s].pc = "failed"]
    /\ ev' = [NoEvent EXCEPT !.raised = <<"TransferError">>]
    /\ UNCHANGED <<trainer, frames, configuration, is_open, closing, connected, out_queue, pending,
                   conn, cyc, nqueued, now, q_wire>>

\* The 500 ms timer fires: after Reset the next statement runs; in the poll
\* loop the request is sent again while wait is true.
HsSleepDone(s) ==
    /\ hs[s].pc = "sleep"
    /\ LET then == initializeANTConnection(configuration)[hs[s].step].then
       IN IF then = "poll" /\ hs[s].wait
          THEN /\ hs[s].polls < MaxPolls
               /\ HsAdvance(s, hs[s].step)
          ELSE HsAdvance(s, hs[s].step + 1)
    /\ UNCHANGED <<trainer, frames, configuration, is_open, closing, connected, out_queue, conn,
                   cyc, nqueued, now, q_wire>>

(* ------------------------------- time --------------------------------- *)
Tick ==
    /\ now < MaxTime
    /\ now' = now + 1
    /\ ev' = NoEvent
    /\ UNCHANGED <<trainer, frames, configuration, is_open, closing, connected, out_queue, pending,
                   conn, hs, cyc, nqueued, q_wire>>

(* ------------------------------- Next --------------------------------- *)
Next ==
    \/ \E s \in Sessions : Connect(s)
    \/ \E s \in Sessions, ok \in BOOLEAN : OpenDone(s, ok)
    \/ \E close_driver \in BOOLEAN : Disconnect(close_driver)
    \/ CloseDone
    \/ \E q \in Queueable : QueueMessage(q[1], q[2])
    \/ \E s \in Sessions : CycleTimer(s)
    \/ \E s \in Sessions : CycleTxDone(s)
    \/ \E s \in Sessions : CycleTxFail(s)
    \/ \E s \in Sessions, m \in Inbound : CycleRxDone(s, m)
    \/ \E s \in Sessions : CycleRxFail(s)
    \/ \E s \in Sessions : HsTxDone(s)
    \/ \E s \in Sessions : HsTxFail(s)
    \/ \E s \in Sessions : HsSleepDone(s)

Spec == Init /\ [][Next]_vars

\* The scheduling of the cycle: a timer that is set fires (window.setTimeout
\* with delay 0), a write to an open transport completes, and an open
\* transport returns every receive with a message.
CycleFairness ==
    \A s \in Sessions :
        /\ WF_vars(CycleTimer(s))
        /\ WF_vars(CycleTxDone(s))
        /\ WF_vars(\E m \in Inbound : CycleRxDone(s, m))

\* One connect() call, queueMessage calls before and after it, disconnect
\* and close, every receive outcome.
NextQueue ==
    \/ Connect(1)
    \/ \E ok \in BOOLEAN : OpenDone(1, ok)
    \/ \E close_driver \in BOOLEAN : Disconnect(close_driver)
    \/ CloseDone
    \/ \E q \in Queueable : QueueMessage(q[1], q[2])
    \/ CycleTimer(1)
    \/ CycleTxDone(1)
    \/ CycleTxFail(1)
    \/ \E m \in Inbound : CycleRxDone(1, m)
    \/ CycleRxFail(1)
    \/ HsTxDone(1)
    \/ HsTxFail(1)
    \/ HsSleepDone(1)

SpecLive == Init /\ [][NextQueue]_vars /\ CycleFairness

\* One connect() call with every configuration and no queued messages.
NextHandshake ==
    \/ Connect(1)
    \/ \E ok \in BOOLEAN : OpenDone(1, ok)
    \/ \E close_driver \in BOOLEAN : Disconnect(close_driver)
    \/ CloseDone
    \/ CycleTimer(1)
    \/ \E m \in Inbound : CycleRxDone(1, m)
    \/ CycleRxFail(1)
    \/ HsTxDone(1)
    \/ HsTxFail(1)
    \/ HsSleepDone(1)

SpecHandshake == InitHandshake /\ [][NextHandshake]_vars

\* One connect() call on a transport that opens and stays open, with a
\* device that answers every status request with TRACKING and may send or
\* not send the other frames.
NextTracking ==
    \/ Connect(1)
    \/ OpenDone(1, TRUE)
    \/ CycleTimer(1)
    \/ \E m \in Inbound \ {ChannelStatusMessage(1, SEARCHING)} : CycleRxDone(1, m)
    \/ HsTxDone(1)
    \/ HsSleepDone(1)

\* The transport opens, every write completes, every timer fires, and
\* the status reply TRACKING is received again and again; no other frame
\* is certain to arrive.
TrackingFairness ==
    /\ WF_vars(OpenDone(1, TRUE))
    /\ WF_vars(HsTxDone(1))
    /\ WF_vars(HsSleepDone(1))
    /\ WF_vars(CycleTimer(1))
    /\ SF_vars(CycleRxDone(1, ChannelStatusMessage(1, TRACKING)))

\* The configurations with at most one channel.
InitTracking ==
    InitWith({c \in NodeConfig : Len(c.channels) <= 1}) /\ NoFrames /\ NewTrainer

SpecTracking == InitTracking /\ [][NextTracking]_vars /\ TrackingFairness

\* The same with the clock running and the handshake of the optional reset.
NextTimed == NextHandshake \/ Tick

SpecTimed == Init /\ [][NextTimed]_vars

\* Messages of the three kinds of reply matching, queued with a callback.
QueueableCommands == {ResetMessage, SetNetworkKeyMessage(0), BroadcastMessage(1)}

\* What buildMessage returns for a startup notification, for events with
\* the codes RESPONSE_NO_ERROR, EVENT_TX and EVENT_CHANNEL_CLOSED and for
\* a broadcast.
InboundReplies ==
    {StartupMessage,
     ChannelEvent(0, SetNetworkKeyMessageID, RESPONSE_NO_ERROR),
     ChannelEvent(0, SetNetworkKeyMessageID, EVENT_CHANNEL_CLOSED),
     ChannelEvent(1, BroadcastMessageID, EVENT_TX),
     BroadcastMessage(1)}

\* One connect() call, commands queued and every kind of reply received.
NextReplies ==
    \/ Connect(1)
    \/ \E ok \in BOOLEAN : OpenDone(1, ok)
    \/ \E message \in QueueableCommands : QueueMessage(message, TRUE)
    \/ CycleTimer(1)
    \/ CycleTxDone(1)
    \/ \E m \in InboundReplies : CycleRxDone(1, m)
    \/ HsTxDone(1)
    \/ HsSleepDone(1)

SpecReplies == Init /\ [][NextReplies]_vars

(* ---------------------- the transport and frames ---------------------- *)
\* UsbDriver.open() called on the transport itself: AlreadyOpenError when
\* it is open, otherwise is_open is what requestDevice, open,
\* selectConfiguration and claimInterface make of it.
Open(ok) ==
    /\ ~is_open
    /\ is_open' = ok
    /\ UNCHANGED <<trainer, configuration, closing, connected, out_queue, pending, conn,
                   hs, cyc, nqueued, now, q_wire, ev, frames>>

\* UsbDriver.sendMessage(tx.message): NotOpenError, or the device echoes
\* the bytes of transferOut(1, message_bytes) to its IN endpoint.
Transmit ==
    /\ ~tx.sent
    /\ IF is_open
       THEN /\ LET message_bytes == encode(tx.message)
               IN /\ out_endpoint' = message_bytes
                  /\ in_endpoint' = in_endpoint \o message_bytes
            /\ tx' = [tx EXCEPT !.sent = TRUE]
            /\ drv' = [drv EXCEPT !.last = "sendMessage", !.thrown = "none"]
       ELSE /\ drv' = [drv EXCEPT !.last = "sendMessage", !.thrown = "NotOpenError"]
            /\ UNCHANGED <<tx, out_endpoint, in_endpoint>>
    /\ UNCHANGED <<trainer, node, rcv, data, decoded>>

\* UsbDriver.receiveMessage() up to its first transferIn.
ReceiveMessage ==
    /\ rcv.pc = "idle"
    /\ rcv' = IF is_open THEN [rcv EXCEPT !.pc = "sync"]
              ELSE [rcv EXCEPT !.pc = "thrown", !.in_message = Thrown("NotOpenError")]
    /\ UNCHANGED <<trainer, node, tx, out_endpoint, in_endpoint, data, decoded, drv>>

\* transferIn(1, 1) of the loop returns in_byte: the sync byte, or a byte
\* that is dropped.
TransferInSync ==
    /\ rcv.pc = "sync"
    /\ in_endpoint # <<>>
    /\ LET in_byte == Head(in_endpoint)
       IN rcv' = IF in_byte = SYNC_BYTE THEN [rcv EXCEPT !.pc = "size"] ELSE rcv
    /\ in_endpoint' = Tail(in_endpoint)
    /\ UNCHANGED <<trainer, node, tx, out_endpoint, data, decoded, drv>>

\* transferIn(1, 1) after the sync byte returns message_size.
TransferInSize ==
    /\ rcv.pc = "size"
    /\ in_endpoint # <<>>
    /\ rcv' = [rcv EXCEPT !.pc = "body", !.message_size = Head(in_endpoint)]
    /\ in_endpoint' = Tail(in_endpoint)
    /\ UNCHANGED <<trainer, node, tx, out_endpoint, data, decoded, drv>>

parseBodyWithoutId(message_size, message_body) ==
    buildMessage(message_body[1], SubSeq(message_body, 1, message_size),
                 message_body[message_size + 2])

\* receiveMessage from message_id to buildMessage.  Of a message_body with
\* fewer than message_size + 2 bytes message_checksum is undefined, which
\* differs from every checksum: buildMessage throws.
parseBody(message_size, message_body) ==
    IF Len(message_body) < message_size + 2 THEN Thrown("MessageChecksumError")
    ELSE LET message_id == message_body[1]
             message_content == SubSeq(message_body, 2, message_size + 1)
             message_checksum == message_body[message_size + 2]
         IN buildMessage(message_id, message_content, message_checksum)

\* transferIn(1, message_size + 2) returns the message_size + 2 bytes that
\* follow: the message is built and returned, or buildMessage throws.
TransferInBody ==
    /\ rcv.pc = "body"
    /\ Len(in_endpoint) >= rcv.message_size + 2
    /\ LET message_body == SubSeq(in_endpoint, 1, rcv.message_size + 2)
           in_message == parseBody(rcv.message_size, message_body)
       IN rcv' = [rcv EXCEPT
                     !.pc = IF in_message.class = "MessageChecksumError"
                            THEN "thrown" ELSE "returned",
                     !.in_message = in_message]
    /\ in_endpoint' = SubSeq(in_endpoint, rcv.message_size + 3, Len(in_endpoint))
    /\ UNCHANGED <<trainer, node, tx, out_endpoint, data, decoded, drv>>

\* content bytes per message of the frames checked exhaustively
MaxContent == 2

\* Ids: unknown ones, the five buildMessage knows, the sync byte, the
\* largest.  Bytes: the smallest, the sync byte, the largest, another.
MessageIds ==
    {0, OpaqueID, ChannelEventID, BroadcastMessageID, ChannelIdMessageID,
     ChannelStatusMessageID, StartupMessageID, SYNC_BYTE, 255}

ContentBytes == {0, 1, SYNC_BYTE, 255}

\* the longest content of a frame, whose length field is one byte
LongestContent == [i \in 1..255 |-> i]

Contents ==
    UNION {[1..n -> ContentBytes] : n \in 0..MaxContent} \cup {LongestContent}

\* bytes in the IN endpoint before the frame, none of them the sync byte
StrayBytes == {<<>>, <<0>>, <<1, 255>>}

\* A message to send and stray bytes in the endpoint to begin with.
InitFrames ==
    /\ InitWith({c \in ResetOnlyConfig : c.reset})
    /\ NewTrainer
    /\ tx \in [message : {NewMessage("Message", id, content, TRUE) :
                             id \in MessageIds, content \in Contents},
               sent : {FALSE}, changed : {0}]
    /\ out_endpoint = <<>>
    /\ in_endpoint \in StrayBytes
    /\ rcv = NotReceiving
    /\ data = <<>>
    /\ decoded = NotDecoded
    /\ drv = NoCalls

NextFrames ==
    \/ \E ok \in BOOLEAN : Open(ok)
    \/ Transmit
    \/ ReceiveMessage
    \/ TransferInSync
    \/ TransferInSize
    \/ TransferInBody

SpecFrames == InitFrames /\ [][NextFrames]_vars

\* transferIn(1, message_size + 2) returns the next chunk of the stream,
\* which ends after `returned` bytes, before the end of the body: the call
\* throws.
TransferInBodyShort(returned) ==
    /\ rcv.pc = "body"
    /\ returned < rcv.message_size + 2
    /\ returned <= Len(in_endpoint)
    /\ LET message_body == SubSeq(in_endpoint, 1, returned)
           in_message == parseBody(rcv.message_size, message_body)
       IN rcv' = [rcv EXCEPT
                     !.pc = IF in_message.class = "MessageChecksumError"
                            THEN "thrown" ELSE "returned",
                     !.in_message = in_message]
    /\ in_endpoint' = SubSeq(in_endpoint, returned + 1, Len(in_endpoint))
    /\ UNCHANGED <<trainer, node, tx, out_endpoint, data, decoded, drv>>

\* the sizes of the chunks that end inside a body
ChunkSizes == 1..(MaxContent + 1)

\* receiveMessage() of the UsbDriver that buffers, up to the transferIn of
\* its first receiveData().
BufferedReceiveMessage ==
    /\ rcv.pc = "idle"
    /\ rcv' = IF is_open THEN [rcv EXCEPT !.pc = "data"]
              ELSE [rcv EXCEPT !.pc = "thrown", !.in_message = Thrown("NotOpenError")]
    /\ UNCHANGED <<trainer, node, tx, out_endpoint, in_endpoint, data, decoded, drv>>

\* What the buffering receiveMessage makes of its buffer after the sync
\* byte: message_size, message_id, message_content and message_checksum
\* are shifted off; a buffer that ends before the checksum leaves
\* message_checksum undefined and buildMessage throws.
parseData(buffered) ==
    IF buffered = <<>> \/ Len(buffered) < buffered[1] + 3
    THEN [in_message |-> Thrown("MessageChecksumError"), data |-> <<>>]
    ELSE LET message_size == buffered[1]
             message_id == buffered[2]
             message_content == SubSeq(buffered, 3, message_size + 2)
             message_checksum == buffered[message_size + 3]
         IN [in_message |-> buildMessage(message_id, message_content, message_checksum),
             data |-> SubSeq(buffered, message_size + 4, Len(buffered))]

\* transferIn(1, 1024) of receiveData() returns the next chunk of the
\* stream, `returned` bytes: it is appended to data, one byte is shifted
\* off, and after a sync byte the message is built from what is buffered.
ReceiveData(returned) ==
    /\ rcv.pc = "data"
    /\ returned \in 1..Len(in_endpoint)
    /\ LET buffered == data \o SubSeq(in_endpoint, 1, returned)
           in_byte == Head(buffered)
           parsed == parseData(Tail(buffered))
       IN IF in_byte = SYNC_BYTE
          THEN /\ rcv' = [rcv EXCEPT
                             !.pc = IF parsed.in_message.class = "MessageChecksumError"
                                    THEN "thrown" ELSE "returned",
                             !.in_message = parsed.in_message]
               /\ data' = parsed.data
          ELSE /\ rcv' = rcv
               /\ data' = Tail(buffered)
    /\ in_endpoint' = SubSeq(in_endpoint, returned + 1, Len(in_endpoint))
    /\ UNCHANGED <<trainer, node, tx, out_endpoint, decoded, drv>>

\* The transport, in either variant of UsbDriver.receiveMessage, on a
\* stream that is cut into chunks anywhere: a chunk of a few bytes, or all
\* the bytes there are.
NextChunked ==
    \/ NextFrames
    \/ \E returned \in ChunkSizes : TransferInBodyShort(returned)
    \/ BufferedReceiveMessage
    \/ \E returned \in ChunkSizes \cup {Len(in_endpoint)} : ReceiveData(returned)

SpecChunked == InitFrames /\ [][NextChunked]_vars

\* open() calls in progress at a time
MaxOpening == 2

\* UsbDriver.open() up to its first await: AlreadyOpenError, or the call
\* goes on to requestDevice.
OpenCall ==
    /\ IF is_open
       THEN drv' = [drv EXCEPT !.last = "open", !.thrown = "AlreadyOpenError"]
       ELSE /\ drv.opening < MaxOpening
            /\ drv' = [opening |-> drv.opening + 1, last |-> "open", thrown |-> "none"]
    /\ UNCHANGED <<trainer, node, tx, out_endpoint, in_endpoint, rcv, data, decoded>>

\* An open() call ends: requestDevice, open, selectConfiguration and
\* claimInterface went through and is_open is set, or one of them was
\* rejected and the catch block clears is_open.
OpenEnd(ok) ==
    /\ drv.opening > 0
    /\ is_open' = ok
    /\ drv' = [opening |-> drv.opening - 1,
               last |-> IF ok THEN "opened" ELSE "open failed", thrown |-> "none"]
    /\ UNCHANGED <<trainer, configuration, closing, connected, out_queue, pending, conn,
                   hs, cyc, nqueued, now, q_wire, ev, tx, out_endpoint, in_endpoint,
                   rcv, data, decoded>>

\* UsbDriver.close() up to its first await: NotOpenError, or the call goes
\* on to releaseInterface.
CloseCall ==
    /\ IF is_open
       THEN /\ closing' = TRUE
            /\ drv' = [drv EXCEPT !.last = "close", !.thrown = "none"]
       ELSE /\ closing' = closing
            /\ drv' = [drv EXCEPT !.last = "close", !.thrown = "NotOpenError"]
    /\ UNCHANGED <<trainer, configuration, is_open, connected, out_queue, pending, conn,
                   hs, cyc, nqueued, now, q_wire, ev, tx, out_endpoint, in_endpoint,
                   rcv, data, decoded>>

\* A close() call ends: releaseInterface and close went through and
\* is_open is cleared, or one of them was rejected and the call throws.
CloseEnd(ok) ==
    /\ closing
    /\ closing' = FALSE
    /\ is_open' = (is_open /\ ~ok)
    /\ drv' = [drv EXCEPT !.last = IF ok THEN "closed" ELSE "close failed",
                          !.thrown = IF ok THEN "none" ELSE "Error"]
    /\ UNCHANGED <<trainer, configuration, connected, out_queue, pending, conn,
                   hs, cyc, nqueued, now, q_wire, ev, tx, out_endpoint, in_endpoint,
                   rcv, data, decoded>>

\* One message and no stray bytes.
InitLifecycle ==
    /\ InitWith({c \in ResetOnlyConfig : c.reset})
    /\ NewTrainer
    /\ tx = [message |-> NewMessage("Message", OpaqueID, <<SYNC_BYTE>>, TRUE),
             sent |-> FALSE, changed |-> 0]
    /\ out_endpoint = <<>>
    /\ in_endpoint = <<>>
    /\ rcv = NotReceiving
    /\ data = <<>>
    /\ decoded = NotDecoded
    /\ drv = NoCalls

\* The calls on the transport in any order, a call made while another is
\* at one of its awaits included.
NextLifecycle ==
    \/ OpenCall
    \/ \E ok \in BOOLEAN : OpenEnd(ok)
    \/ CloseCall
    \/ \E ok \in BOOLEAN : CloseEnd(ok)
    \/ Transmit
    \/ ReceiveMessage
    \/ TransferInSync
    \/ TransferInSize
    \/ TransferInBody

SpecLifecycle == InitLifecycle /\ [][NextLifecycle]_vars

\* The positions of a frame at which the link changes a byte: every one of
\* a short frame; the header, the first content bytes, the last content
\* byte and the checksum of a long one.
ChangedPositions(message_bytes) ==
    {position \in DOMAIN message_bytes :
        position <= MaxContent + 4 \/ position >= Len(message_bytes) - 1}

\* UsbDriver.sendMessage(tx.message) over a link that changes the byte at
\* one position of the frame on its way to the IN endpoint.
TransmitChanged ==
    /\ is_open
    /\ ~tx.sent
    /\ LET message_bytes == encode(tx.message)
       IN \E position \in ChangedPositions(message_bytes), byte \in ContentBytes :
             /\ byte # message_bytes[position]
             /\ out_endpoint' = message_bytes
             /\ in_endpoint' = in_endpoint \o [message_bytes EXCEPT ![position] = byte]
             /\ tx' = [tx EXCEPT !.sent = TRUE, !.changed = position]
    /\ UNCHANGED <<trainer, node, rcv, data, decoded, drv>>

\* The transport on a link that may change one byte of the frame.
NextChanged ==
    \/ NextFrames
    \/ TransmitChanged

SpecChanged == InitFrames /\ [][NextChanged]_vars

(* ------------------------ the fields of messages ----------------------- *)
\* content[index] of the code, whose indices start at 0
at(content, index) == content[index + 1]

\* (byte & mask) === mask for a mask of one bit
hasBit(byte, mask) == (byte \div mask) % 2 = 1

\* ExtendableMessage.  Of a content without a byte at offset 9 the flag
\* byte is undefined and none of its bits is set.
isExtended(content) == Len(content) > 9

flagBit(content, mask) == Len(content) > 9 /\ hasBit(at(content, 9), mask)

hasChannelOutput(content) == flagBit(content, 128)

hasRSSI(content) == flagBit(content, 64)

hasTimestamp(content) == flagBit(content, 32)

getDeviceNumber(content) == at(content, 10) * 256 + at(content, 11)

getDeviceType(content) == at(content, 12)

getTransType(content) == at(content, 13)

getMeasurementType(content) ==
    LET offset == IF hasChannelOutput(content) THEN 4 ELSE 0
    IN at(content, 10 + offset)

getRSSIValue(content) ==
    LET offset == IF hasChannelOutput(content) THEN 4 ELSE 0
    IN at(content, 11 + offset)

getThresholdConfigurationValue(content) ==
    LET offset == IF hasChannelOutput(content) THEN 4 ELSE 0
    IN at(content, 12 + offset)

getTimestamp(content) ==
    LET offset == IF hasChannelOutput(content)
                  THEN (IF hasRSSI(content) THEN 7 ELSE 4) ELSE 0
    IN at(content, 10 + offset) * 256 + at(content, 11 + offset)

\* ChannelIdMessage.getDeviceNumber
getChannelIdDeviceNumber(content) == at(content, 1) * 256 + at(content, 2)

\* new SetChannelPeriodMessage(period, channel_number): DataView.setUint16
\* with littleEndian = true stores period modulo 2^16, low byte first.
NewSetChannelPeriodMessage(period, channel_number) ==
    NewMessage("SetChannelPeriodMessage", SetChannelPeriodMessageID,
               <<channel_number, (period % 65536) % 256, (period % 65536) \div 256>>,
               TRUE)

\* the bytes a broadcast content needs for every accessor to read a byte
ExtendedLength == 19

\* What the accessors return for a message received: the predicates of a
\* broadcast and, where the content has a byte at every offset they read,
\* its fields; the device number of a ChannelIdMessage.
Decode(in_message) ==
    LET content == in_message.content
    IN IF in_message.class = "BroadcastMessage" /\ Len(content) >= ExtendedLength
       THEN [class |-> "ExtendedBroadcast",
             isExtended |-> isExtended(content),
             hasChannelOutput |-> hasChannelOutput(content),
             hasRSSI |-> hasRSSI(content),
             hasTimestamp |-> hasTimestamp(content),
             device_number |-> getDeviceNumber(content),
             device_type |-> getDeviceType(content),
             trans_type |-> getTransType(content),
             measurement_type |-> getMeasurementType(content),
             rssi |-> getRSSIValue(content),
             threshold |-> getThresholdConfigurationValue(content),
             timestamp |-> getTimestamp(content)]
       ELSE IF in_message.class = "BroadcastMessage"
       THEN [class |-> "BroadcastMessage",
             isExtended |-> isExtended(content),
             hasChannelOutput |-> hasChannelOutput(content),
             hasRSSI |-> hasRSSI(content),
             hasTimestamp |-> hasTimestamp(content)]
       ELSE IF in_message.class = "ChannelIdMessage" /\ Len(content) >= 5
       THEN [class |-> "ChannelIdMessage",
             device_number |-> getChannelIdDeviceNumber(content)]
       ELSE [class |-> in_message.class]

\* The caller of receiveMessage() reads the fields of the message returned.
DecodeFields ==
    /\ rcv.pc = "returned"
    /\ decoded = NotDecoded
    /\ decoded' = Decode(rcv.in_message)
    /\ UNCHANGED <<trainer, node, tx, out_endpoint, in_endpoint, rcv, data, drv>>

\* The flag bytes: each flag alone, none, and every combination.
FlagBytes == {0, 32, 64, 96, 128, 160, 192, 224}

\* A broadcast content of `length` bytes with the byte `flag_byte` at offset
\* 9 and at every other offset a byte that differs from all others.
BroadcastContent(length, flag_byte) ==
    [i \in 1..length |-> IF i = 10 THEN flag_byte ELSE 200 + i]

\* periods of a channel, among them 4096 and 8070
Periods == {0, 1, 255, 256, 4096, 8070, 65535}

\* The messages whose fields are read: broadcasts that are not extended,
\* extended ones with every flag byte, ChannelId messages.
FieldMessages ==
    {NewMessage("BroadcastMessage", BroadcastMessageID, BroadcastContent(length, 0), TRUE) :
        length \in {0, 1, 9}}
    \cup {NewMessage("BroadcastMessage", BroadcastMessageID,
                     BroadcastContent(length, flag_byte), TRUE) :
             length \in {10, ExtendedLength, ExtendedLength + 3}, flag_byte \in FlagBytes}
    \cup {NewMessage("ChannelIdMessage", ChannelIdMessageID,
                     <<1, high, low, 1, 0>>, TRUE) :
             high \in {0, 1, 255}, low \in {0, 2, 255}}
    \cup {NewSetChannelPeriodMessage(period, 1) : period \in Periods}

InitFields ==
    /\ InitWith({c \in ResetOnlyConfig : c.reset})
    /\ NewTrainer
    /\ tx \in [message : FieldMessages, sent : {FALSE}, changed : {0}]
    /\ out_endpoint = <<>>
    /\ in_endpoint \in StrayBytes
    /\ rcv = NotReceiving
    /\ data = <<>>
    /\ decoded = NotDecoded
    /\ drv = NoCalls

NextFields ==
    \/ NextFrames
    \/ DecodeFields

SpecFields == InitFields /\ [][NextFields]_vars

(* ----------------------------- the trainer ---------------------------- *)
\* BushidoHeadUnit: the codes of its buttons
BUTTON_LEFT == 1
BUTTON_UP == 2
BUTTON_OK == 3
BUTTON_DOWN == 4
BUTTON_RIGHT == 5

\* Math.round of numerator / denominator: the nearest integer, a half
\* towards +Infinity.
round(numerator, denominator) == (2 * numerator + denominator) \div (2 * denominator)

\* x << n of JavaScript for n in 2..30: the product in 32 bits, two's
\* complement.  The bits of x that stay are the low 32 - n.
shiftLeft(x, n) ==
    LET low == x % 2 ^ (32 - n)
    IN IF low >= 2 ^ (31 - n) THEN (low - 2 ^ (32 - n)) * 2 ^ n ELSE low * 2 ^ n

\* the tenths without the range
roundedSlope(slope) == round(slope * 10, 100)

\* Math.max(-50, Math.min(200, Math.round(slope * 10.0))) of a slope in
\* hundredths of a percent
corrected_slope(slope) ==
    LET rounded == round(slope * 10, 100)
        at_most == IF rounded < 200 THEN rounded ELSE 200
    IN IF at_most > -50 THEN at_most ELSE -50

\* the data message without its branch for a negative slope
BushidoDataMessageUnsigned(slope, weight, channel_number) ==
    NewMessage("BushidoDataMessage", BroadcastMessageID,
               <<channel_number, 220, 1, 0, 0, corrected_slope(slope), weight, 0, 0>>, TRUE)

BushidoDataMessage(slope, weight, channel_number) ==
    IF corrected_slope(slope) < 0
    THEN NewMessage("BushidoDataMessage", BroadcastMessageID,
                    <<channel_number, 220, 1, 0, 255, 256 + corrected_slope(slope),
                      weight, 0, 0>>, TRUE)
    ELSE NewMessage("BushidoDataMessage", BroadcastMessageID,
                    <<channel_number, 220, 1, 0, 0, corrected_slope(slope),
                      weight, 0, 0>>, TRUE)

BushidoContinueMessage(channel_number) ==
    NewMessage("BushidoContinueMessage", BroadcastMessageID,
               <<channel_number, 172, 3, 2, 0, 0, 0, 0, 0>>, TRUE)

\* BroadcastMessage.getPayload()
getPayload(content) == SubSeq(content, 2, Len(content))

\* A sendData() that only logs.
sendDataUnqueued == UNCHANGED <<out_queue, nqueued>>

\* sendData() and continue() queue their message without a callback.
sendData ==
    /\ out_queue' = Append(out_queue,
                           [message |-> BushidoDataMessage(bushido_data.slope,
                                                           bushido_data.weight, 0),
                            callback |-> NoCallback])
    /\ nqueued' = nqueued + 1

continue ==
    /\ out_queue' = Append(out_queue, [message |-> BushidoContinueMessage(0),
                                       callback |-> NoCallback])
    /\ nqueued' = nqueued + 1

\* As the connection manager sees them: the first three content bytes.
BushidoInitPCConnectionMessage(channel_number) ==
    Message(BroadcastMessageID, channel_number, 172, 3, TRUE)

BushidoClosePCConnectionMessage(channel_number) ==
    Message(BroadcastMessageID, channel_number, 172, 3, TRUE)

\* disconnectFromHeadUnit() queues its two messages, the second with the
\* resolve of the promise it returns as callback.
disconnectFromHeadUnit ==
    /\ out_queue' = out_queue \o
          <<[message |-> Identified(BushidoInitPCConnectionMessage(0), 0, nqueued + 1),
             callback |-> NoCallback],
            [message |-> Identified(BushidoClosePCConnectionMessage(0), 0, nqueued + 2),
             callback |-> nqueued + 2]>>
    /\ nqueued' = nqueued + 2
    /\ disconnecting' = disconnecting \cup {nqueued + 2}

\* BushidoTrainer.disconnect() up to its await; what follows the await is
\* in CycleRxDone.
BushidoDisconnect ==
    /\ CallsMade + 1 < MaxCalls
    /\ disconnectFromHeadUnit
    /\ ev' = NoEvent
    /\ UNCHANGED <<bushido, frames, configuration, is_open, closing, connected, pending,
                   conn, hs, cyc, now, q_wire>>

\* The listeners are registered.  A button code without a listener is
\* remembered like the others.
processButtonPress(button_code) ==
    IF last_button_code # button_code \/ clock - last_button_timestamp > 1000
    THEN /\ called' = CASE button_code = BUTTON_LEFT -> <<"onButtonLeft">>
                        [] button_code = BUTTON_DOWN -> <<"onButtonDown">>
                        [] button_code = BUTTON_OK -> <<"onButtonOK">>
                        [] button_code = BUTTON_UP -> <<"onButtonUp">>
                        [] button_code = BUTTON_RIGHT -> <<"onButtonRight">>
                        [] OTHER -> <<>>
         /\ last_button_timestamp' = clock
         /\ last_button_code' = button_code
    ELSE /\ called' = <<>>
         /\ UNCHANGED <<last_button_code, last_button_timestamp>>

processBushidoMessage(message) ==
    LET payload == getPayload(message.content)
        kind == <<at(payload, 0), at(payload, 1)>>
    IN CASE kind = <<221, 1>> ->
              /\ bushido_data' =
                    [bushido_data EXCEPT
                        !.speed = shiftLeft(at(payload, 2), 8) + at(payload, 3),
                        !.power = shiftLeft(at(payload, 4), 8) + at(payload, 5),
                        !.cadence = at(payload, 6)]
              /\ called' = <<"onDataUpdated">>
              /\ UNCHANGED <<is_paused, last_button_code, last_button_timestamp,
                             out_queue, nqueued>>
         [] kind = <<221, 2>> ->
              LET distance ==
                     shiftLeft(shiftLeft(shiftLeft(at(payload, 2), 24) + at(payload, 3), 16)
                               + at(payload, 4), 8) + at(payload, 5)
              IN /\ bushido_data' =
                       [bushido_data EXCEPT
                           !.distance = distance,
                           !.heart_rate = IF at(payload, 6) = 0 THEN last_heart_rate
                                          ELSE at(payload, 6)]
                 /\ called' = IF bushido_data.distance # distance
                              THEN <<"onDataUpdated", "onDistanceUpdated">>
                              ELSE <<"onDataUpdated">>
                 /\ UNCHANGED <<is_paused, last_button_code, last_button_timestamp,
                                out_queue, nqueued>>
         [] kind = <<221, 3>> ->
              /\ bushido_data' = [bushido_data EXCEPT !.break_temp = at(payload, 4)]
              /\ called' = <<"onDataUpdated">>
              /\ UNCHANGED <<is_paused, last_button_code, last_button_timestamp,
                             out_queue, nqueued>>
         [] kind = <<221, 16>> ->
              /\ processButtonPress(at(payload, 2))
              /\ UNCHANGED <<bushido_data, is_paused, out_queue, nqueued>>
         [] kind = <<173, 1>> /\ at(payload, 2) = 2 ->
              /\ is_paused' = FALSE
              /\ called' = <<"onResumed">>
              /\ sendData
              /\ UNCHANGED <<bushido_data, last_button_code, last_button_timestamp>>
         [] kind = <<173, 1>> /\ at(payload, 2) = 3 ->
              /\ is_paused' = TRUE
              /\ bushido_data' = [bushido_data EXCEPT !.power = 0, !.cadence = 0, !.speed = 0]
              /\ called' = <<"onDataUpdated", "onPaused">>
              /\ continue
              /\ UNCHANGED <<last_button_code, last_button_timestamp>>
         [] OTHER ->
              /\ called' = <<>>
              /\ UNCHANGED <<bushido_data, is_paused, last_button_code,
                             last_button_timestamp, out_queue, nqueued>>

\* BushidoTrainer.processMessage(message) with what it calls.  The messages
\* it is given come from buildMessage: a broadcast is of class
\* BroadcastMessage itself.
ProcessMessage(message) ==
    /\ CallsMade < MaxCalls
    /\ IF message.class = "BroadcastMessage" /\ at(message.content, 0) = 0
       THEN /\ processBushidoMessage(message)
            /\ UNCHANGED last_heart_rate
       ELSE IF message.class = "BroadcastMessage" /\ at(message.content, 0) = 1
       THEN /\ last_heart_rate' = at(getPayload(message.content), 7)
            /\ called' = <<>>
            /\ UNCHANGED <<bushido_data, is_paused, last_button_code,
                           last_button_timestamp, out_queue, nqueued>>
       ELSE /\ called' = <<>>
            /\ UNCHANGED <<bushido_data, is_paused, last_button_code,
                           last_button_timestamp, last_heart_rate, out_queue, nqueued>>
    /\ ev' = NoEvent
    /\ UNCHANGED <<frames, configuration, is_open, closing, connected, pending, conn, hs,
                   cyc, now, q_wire, clock, disconnecting>>

\* Time passes: Date.now() returns a later instant.
ClockTick(instant) ==
    /\ clock < instant
    /\ clock' = instant
    /\ UNCHANGED <<node, frames, bushido_data, is_paused, last_button_code,
                   last_button_timestamp, last_heart_rate, called, disconnecting>>

\* The instants at which something happens, in ms: 1, 999, 1000, 1001 and
\* more than 1000 ms lie between them.
Instants == {1, 999, 1000, 1001, 2000, 2001}

\* Slopes in hundredths of a percent: below, at and above both ends of
\* -5.0 % .. +20.0 %, around zero, halves of a tenth, -12.3 % and +5.0 %.
Slopes == {-3000, -1230, -505, -500, -496, -495, -5, -4, 0, 4, 5, 500, 1994, 1995, 2000, 2500}

BroadcastOf(channel_number, payload) ==
    NewMessage("BroadcastMessage", BroadcastMessageID, <<channel_number>> \o payload, TRUE)

\* a button of the head unit is held or pressed; 6 is no button
ButtonMessage(button_code) == BroadcastOf(0, <<221, 16, button_code, 0, 0, 0, 0, 0>>)

ResumeMessage == BroadcastOf(0, <<173, 1, 2, 0, 0, 0, 0, 0>>)

\* What the head unit and the heart rate sensor send while a course is
\* ridden and resumed, and what the trainer ignores.
TrainerMessages ==
    {ButtonMessage(button_code) : button_code \in {BUTTON_LEFT, BUTTON_OK, 6}}
    \cup {ResumeMessage,
          BroadcastOf(1, <<0, 0, 0, 0, 0, 0, 0, 65>>),
          BroadcastOf(2, <<221, 16, BUTTON_LEFT, 0, 0, 0, 0, 0>>),
          NewMessage("ChannelIdMessage", ChannelIdMessageID, <<0, 221, 16, 1, 0>>, TRUE)}

PauseMessage == BroadcastOf(0, <<173, 1, 3, 0, 0, 0, 0, 0>>)

\* What arrives while a course is ridden, paused and resumed: the two
\* lifecycle events, speed 30.0 km/h with power 200 W and cadence 90,
\* a distance, a brake temperature, a button, a heart rate, the bytes of
\* the lifecycle events on the channel of the heart rate sensor and in a
\* telemetry record, and lifecycle records of other kinds.
RideMessages ==
    {PauseMessage, ResumeMessage,
     BroadcastOf(0, <<221, 1, 1, 44, 0, 200, 90, 0>>),
     BroadcastOf(0, <<221, 2, 7, 129, 1, 0, 0, 0>>),
     BroadcastOf(0, <<221, 3, 0, 0, 40, 0, 0, 0>>),
     ButtonMessage(BUTTON_LEFT),
     BroadcastOf(1, <<173, 1, 3, 0, 0, 0, 0, 65>>),
     BroadcastOf(1, <<173, 1, 2, 0, 0, 0, 0, 65>>),
     BroadcastOf(0, <<221, 173, 1, 3, 0, 0, 0, 0>>),
     BroadcastOf(0, <<173, 1, 4, 0, 0, 0, 0, 0>>),
     BroadcastOf(0, <<173, 2, 3, 0, 0, 0, 0, 0>>),
     NewMessage("ChannelIdMessage", ChannelIdMessageID, <<0, 173, 1, 3, 0>>, TRUE)}

InitTrainer ==
    /\ InitWith({c \in ResetOnlyConfig : ~c.reset})
    /\ NoFrames
    \* a rider of 70 kg, and a number that is no byte
    /\ bushido_data \in {[NewBushidoData EXCEPT !.slope = slope, !.weight = weight] :
                            slope \in Slopes, weight \in {70, 300}}
    /\ is_paused = FALSE
    /\ last_button_code = -1
    /\ last_button_timestamp = 0
    /\ last_heart_rate = 0
    /\ clock = 0
    /\ called = <<>>
    /\ disconnecting = {}

NextTrainer ==
    \/ \E message \in TrainerMessages : ProcessMessage(message)
    \/ \E instant \in Instants : ClockTick(instant)

SpecTrainer == InitTrainer /\ [][NextTrainer]_vars

NextRide == \E message \in RideMessages : ProcessMessage(message)

SpecRide == InitTrainer /\ [][NextRide]_vars

\* connect() and disconnect() of a BushidoTrainer on a transport that opens.
NextDisconnect ==
    \/ \E s \in Sessions : Connect(s)
    \/ \E s \in Sessions : OpenDone(s, TRUE)
    \/ BushidoDisconnect
    \/ \E s \in Sessions : CycleTimer(s)
    \/ \E s \in Sessions : CycleTxDone(s)
    \/ \E s \in Sessions, m \in Inbound : CycleRxDone(s, m)
    \/ \E s \in Sessions : HsTxDone(s)
    \/ \E s \in Sessions : HsSleepDone(s)

SpecDisconnect == Init /\ [][NextDisconnect]_vars

(* ============================== claims ================================ *)
\* The pending entries whose message a handshake built.
HandshakePending == SelectSeq(pending, LAMBDA e : e.message.src \in Sessions)

\* C1: the handshake transmits the message of a step only after the message
\* of the step before it has been matched by its reply, so that at no time
\* two handshake messages are awaiting their acknowledgment.
C1_OneHandshakeMessageAwaiting == Len(HandshakePending) <= 1

\* C2: connected is true, and a cycle iteration sends or receives, only
\* after every step of the handshake of connect() has completed: while a
\* handshake is in progress the manager is not connected and its cycle is
\* neither sending nor receiving.
C2_ConnectedAfterHandshake ==
    \A s \in Sessions :
        hs[s].pc \in {"tx", "sleep"} => ~connected /\ cyc[s] \notin {"tx", "rx"}

\* The frames of one channel as <<id, channel number>>, in the order stated
\* for the handshake.
C3_ChannelFrames(k, c) ==
    <<<<AssignChannelMessageID, k>>, <<SetChannelIdMessageID, k>>,
      <<SetChannelRfFrequencyMessageID, k>>, <<SetChannelPeriodMessageID, k>>>>
    \o (IF c.hp_search_timeout
        THEN <<<<SetChannelHighPrioritySearchTimeoutMessageID, k>>>> ELSE <<>>)
    \o (IF c.lp_search_timeout
        THEN <<<<SetChannelLowPrioritySearchTimeoutMessageID, k>>>> ELSE <<>>)
    \o <<IF c.scan THEN <<OpenRxScanModeMessageID, 0>> ELSE <<OpenChannelMessageID, k>>>>

C3_Frames(config) ==
    (IF config.reset THEN <<<<ResetMessageID, 0>>>> ELSE <<>>)
    \o [i \in 1..config.networks |-> <<SetNetworkKeyMessageID, i - 1>>]
    \o (IF Len(config.channels) >= 1
        THEN C3_ChannelFrames(1, config.channels[1]) ELSE <<>>)
    \o (IF Len(config.channels) >= 2
        THEN C3_ChannelFrames(2, config.channels[2]) ELSE <<>>)

\* The frames handshake s has transmitted so far, as <<id, channel number>>.
C3_Transmitted(s) == [j \in 1..Len(hs[s].frames) |-> <<hs[s].frames[j].id, hs[s].frames[j].c0>>]

\* C3: for any configuration, the frames the handshake transmits are, in
\* this order, Reset if configured, one SetNetworkKey per network, then per
\* channel AssignChannel, SetChannelId, SetChannelRfFrequency,
\* SetChannelPeriod, the optional search timeouts and one open command; the
\* only other frames are the channel-status requests of the tracking poll,
\* which follow the OpenChannel of their own channel; a completed handshake
\* has transmitted all of them.
C3_HandshakeFrameOrder ==
    \A s \in Sessions :
        LET sent == C3_Transmitted(s)
            commands == SelectSeq(sent, LAMBDA f : f[1] # RequestMessageID)
            expected == C3_Frames(configuration)
        IN /\ Len(commands) <= Len(expected)
           /\ commands = SubSeq(expected, 1, Len(commands))
           /\ hs[s].pc = "done" => commands = expected
           /\ \A j \in DOMAIN sent :
                sent[j][1] = RequestMessageID =>
                    /\ hs[s].frames[j].c1 = ChannelStatusMessageID
                    /\ j > 1
                    /\ sent[j - 1] \in {<<OpenChannelMessageID, sent[j][2]>>, sent[j]}
                    /\ configuration.channels[sent[j][2]].wait_until_tracking

\* A handshake of a configuration with a reset, a network, a channel that
\* waits for tracking and a scan channel has completed after polling.
C3_Witness ==
    /\ hs[1].pc = "done"
    /\ configuration.reset /\ configuration.networks = 1
    /\ Len(configuration.channels) = 2
    /\ configuration.channels[1].wait_until_tracking
    /\ configuration.channels[2].scan
    /\ \E j \in DOMAIN hs[1].frames : hs[1].frames[j].id = RequestMessageID

\* C4: each iteration of the cycle performs at most one transmission, of
\* the head of the outbound queue, followed by exactly one receive, and the
\* next iteration starts only when that receive has completed: a loop that
\* sends goes on to its receive and from there to its next iteration.
C4_OneSendThenOneReceive ==
    [][\A s \in Sessions :
        /\ cyc[s] # "tx" /\ cyc'[s] = "tx" =>
              /\ ev'.dequeued = <<Head(out_queue)>>
              /\ out_queue' = Tail(out_queue)
              /\ q_wire' = Append(q_wire, [message |-> Head(out_queue).message,
                                           callback |-> Head(out_queue).callback,
                                           by |-> s])
        /\ cyc[s] = "tx" => cyc'[s] \in {"tx", "rx"}
        /\ cyc[s] = "rx" => cyc'[s] \in {"rx", "timer"}
        /\ cyc[s] \in {"none", "timer"} => cyc'[s] \in {"none", "timer", "tx", "rx"}]_vars

\* C5: a receive tests only the oldest pending entry: on a match that entry
\* is removed and its callback invoked once, otherwise the pending table
\* and its order are unchanged and no callback is invoked.
C5_OldestPendingOnly ==
    [][ev'.received # <<>> =>
        IF pending # <<>> /\ isReply(Head(pending).message, ev'.received[1])
        THEN /\ pending' = Tail(pending)
             /\ ev'.fired = IF Head(pending).callback # NoCallback
                            THEN <<Head(pending).callback>> ELSE <<>>
        ELSE /\ pending' = pending
             /\ ev'.fired = <<>>]_vars

\* A receive left two pending entries alone because the message answers the
\* second and not the oldest.
C5_Witness ==
    /\ ev.received # <<>>
    /\ ev.fired = <<>>
    /\ Len(pending) >= 2
    /\ ~isReply(pending[1].message, ev.received[1])
    /\ isReply(pending[2].message, ev.received[1])

\* C6: every message received while connected is handed to processMessage
\* exactly once, matched or not, and nothing is handed to processMessage
\* that was not received.
C6_EveryMessageProcessed ==
    /\ connected => ev.processed = ev.received
    /\ ev.received = <<>> => ev.processed = <<>>

\* A message that matched no pending entry was processed while an outbound
\* message is awaiting its acknowledgment.
C6_Witness ==
    /\ connected
    /\ ev.processed # <<>>
    /\ ev.fired = <<>>
    /\ pending # <<>>

\* The number of times message m was written to the transport.
Transmissions(m) ==
    Cardinality({j \in DOMAIN q_wire : q_wire[j].message = m})
    + (IF m.src \in Sessions
       THEN Cardinality({j \in DOMAIN hs[m.src].frames : hs[m.src].frames[j] = m})
       ELSE 0)

\* C7: a sent message with waitForReply true is retransmitted every 1000 ms
\* (two ticks) for as long as its pending entry is unmatched: an entry that
\* has been pending for 1000 ms has been written at least twice.
C7_RetransmittedWhilePending ==
    \A i \in DOMAIN pending :
        now - pending[i].pending_since >= 2 => Transmissions(pending[i].message) >= 2

\* C8: sending a queued message with waitForReply false invokes its
\* callback when the transmission has completed and registers no pending
\* entry for it.
C8_CallbackOnSend ==
    [][\A s \in Sessions :
        cyc[s] = "tx" /\ cyc'[s] = "rx" =>
            LET mine == SelectSeq(q_wire, LAMBDA e : e.by = s)
                sent == mine[Len(mine)]
            IN ~waitForReply(sent.message) =>
                  /\ sent.callback # NoCallback => ev'.fired = <<sent.callback>>
                  /\ \A i \in DOMAIN pending' : pending'[i].message # sent.message]_vars

\* C9: at every instant at most one sent reply-requiring message is
\* unacknowledged: the pending table never holds more than one entry.
C9_AtMostOnePending == Len(pending) <= 1

\* C10: queued messages are transmitted in the order they were queued and
\* none is dequeued twice: the transmitted entries are in queueing order,
\* are older than every entry still queued, and the queue is in queueing
\* order.
C10_QueueOrder ==
    /\ \A i, j \in DOMAIN q_wire : i < j => q_wire[i].message.tag < q_wire[j].message.tag
    /\ \A i, j \in DOMAIN out_queue :
          i < j => out_queue[i].message.tag < out_queue[j].message.tag
    /\ \A i \in DOMAIN q_wire, j \in DOMAIN out_queue :
          q_wire[i].message.tag < out_queue[j].message.tag

\* Two queued messages have been transmitted.
C10_Witness == Len(q_wire) >= 2

\* C11: for any interleaving of connect(), disconnect(), queueMessage() and
\* inbound frames, at most one write to the transport and at most one
\* receive from it are in progress at any instant, and at most one cycle
\* loop is alive.
C11_OneSendOneReceiveOneLoop ==
    /\ Cardinality({s \in Sessions : cyc[s] = "tx"})
       + Cardinality({s \in Sessions : hs[s].pc = "tx"}) <= 1
    /\ Cardinality({s \in Sessions : cyc[s] = "rx"}) <= 1
    /\ Cardinality({s \in Sessions : cyc[s] \in {"tx", "rx", "timer"}}) <= 1

\* C12: a successful disconnect() leaves the outbound queue empty and the
\* pending table empty (so that no callback of a message queued or sent
\* before it can be invoked afterwards).
C12_DisconnectEmptiesQueueAndPending ==
    [][connected /\ ~connected' => out_queue' = <<>> /\ pending' = <<>>]_vars

\* C13: disconnect() while not connected fails with NotConnectedError and
\* changes nothing: a step that raises it leaves the queue, the pending
\* table, the connected flag and the transport as they are, and no step
\* taken while not connected, other than a connect, shortens the queue or
\* starts closing the transport.
C13_DisconnectWhenNotConnected ==
    [][~connected =>
        /\ "NotConnectedError" \in {ev'.raised[i] : i \in DOMAIN ev'.raised} =>
              UNCHANGED <<out_queue, pending, connected, is_open, closing>>
        /\ ~connected' =>
              /\ Len(out_queue') >= Len(out_queue)
              /\ closing' => closing]_vars

\* disconnect() failed with NotConnectedError while the queue and the
\* pending table hold entries and the transport is open.
C13_Witness ==
    /\ ev.raised = <<"NotConnectedError">>
    /\ out_queue # <<>>
    /\ pending # <<>>
    /\ is_open

\* C14: no frame is written to the transport after disconnect() has closed
\* it: a step that starts while the close begun by disconnect(true) is in
\* progress, or that leaves the transport closed, writes nothing.
C14_NoWriteAfterClose ==
    [][closing \/ ~is_open' => ev'.written = <<>>]_vars

\* C15: a frame with a wrong checksum received while connected is dropped:
\* it is not handed to processMessage, the outbound queue, the pending
\* table and the connected flag are unchanged, and the loop that received
\* it is rescheduled for a further iteration.
C15_ChecksumErrorDropsFrame ==
    [][connected /\ ev'.caught = <<"MessageChecksumError">> =>
        /\ ev'.processed = <<>>
        /\ ev'.fired = <<>>
        /\ UNCHANGED <<out_queue, pending, connected>>
        /\ \E s \in Sessions : cyc[s] = "rx" /\ cyc'[s] = "timer"
        /\ \A s \in Sessions : cyc'[s] # "dead" \/ cyc[s] = "dead"]_vars

\* A checksum error was caught while connected with entries in the queue and
\* in the pending table.
C15_Witness ==
    /\ connected
    /\ ev.caught = <<"MessageChecksumError">>
    /\ out_queue # <<>>
    /\ pending # <<>>

\* C16: the cycle reschedules itself after every iteration while connected,
\* so a loop never ends other than by finding connected false, and a loop
\* whose timer fires while connected is false starts neither a send nor a
\* receive.
C16_RescheduledWhileConnected ==
    [][\A s \in Sessions :
        /\ cyc'[s] = "dead" => cyc[s] = "dead"
        /\ cyc[s] \in {"tx", "rx", "timer"} /\ cyc'[s] = "none" => ~connected
        /\ ~connected /\ cyc[s] = "timer" => cyc'[s] \in {"timer", "none"}]_vars

\* C17: a receive failure in the cycle after disconnect() has cleared the
\* connected flag is suppressed: the step raises no error and changes
\* neither the queue, the pending table nor the connected flag.
C17_ReceiveFailureSuppressed ==
    [][~connected' /\ ev'.caught # <<>> =>
        /\ ev'.raised = <<>>
        /\ UNCHANGED <<out_queue, pending, connected>>]_vars

\* A transport error of a receive was caught after a disconnect(true) closed
\* the transport, with an entry in the pending table.
C17_Witness ==
    /\ ~connected
    /\ ev.caught = <<"TransferError">>
    /\ ev.raised = <<>>
    /\ pending # <<>>

\* C18: for a channel with wait_until_tracking the handshake stays in the
\* poll loop of that channel until a ChannelStatus reply for that channel
\* with status TRACKING is received: the loop's wait variable is cleared
\* only by the receipt of such a reply, and the handshake leaves the poll
\* statement only with wait cleared.
C18_PollEndsOnTrackingOfItsChannel ==
    [][\A s \in Sessions :
        LET plan == initializeANTConnection(configuration)
            polling == /\ hs[s].pc \in {"tx", "sleep"}
                       /\ plan[hs[s].step].then = "poll"
        IN /\ polling /\ hs[s].wait /\ ~hs'[s].wait =>
                 /\ Len(ev'.received) = 1
                 /\ ev'.received[1].id = ChannelStatusMessageID
                 /\ ev'.received[1].c0 = plan[hs[s].step].message.c0
                 /\ getStatus(ev'.received[1]) = TRACKING
           /\ polling /\ hs'[s].step # hs[s].step => ~hs[s].wait]_vars

\* C19: round trip.  For the ids and contents of the frames layer (ids and
\* bytes in 0..255, contents of up to 255 bytes) the bytes of encode(), fed
\* to receiveMessage() of the open transport, come back as a message with
\* the id and the content of the original: the call returns only that
\* message, it throws no checksum error, and with the frame in the endpoint
\* none of its reads is left waiting.
C19_RoundTrip ==
    /\ rcv.pc = "returned" =>
          /\ rcv.in_message.id = tx.message.id
          /\ rcv.in_message.content = tx.message.content
    /\ rcv.pc = "thrown" => rcv.in_message.class = "NotOpenError"
    /\ tx.sent /\ rcv.pc \in {"sync", "size"} => in_endpoint # <<>>
    /\ tx.sent /\ rcv.pc = "body" => Len(in_endpoint) >= rcv.message_size + 2

\* A frame with the longest content came back after stray bytes were dropped.
C19_Witness ==
    /\ rcv.pc = "returned"
    /\ tx.message.content = LongestContent
    /\ rcv.in_message.content = LongestContent
    /\ rcv.in_message.id = ChannelEventID

\* bit k of the byte x
C20_Bit(x, k) == (x \div (2 ^ k)) % 2

\* C20: the data encode() hands to transferOut is, for a message with id
\* and content (bytes, and a length that fits the length byte), the bytes
\* 0xA4, the length of the content and the id, then the content, then one
\* byte that is the XOR of all the bytes before it (bit by bit, the parity
\* of their bits): length of the content + 4 bytes in all.
C20_EncodedFrame ==
    tx.sent =>
        LET frame == out_endpoint
            length == Len(tx.message.content)
        IN /\ Len(frame) = length + 4
           /\ frame[1] = 164
           /\ frame[2] = length
           /\ frame[3] = tx.message.id
           /\ SubSeq(frame, 4, length + 3) = tx.message.content
           /\ frame[length + 4] \in 0..255
           /\ \A k \in 0..7 :
                 C20_Bit(frame[length + 4], k)
                    = Cardinality({i \in 1..(length + 3) : C20_Bit(frame[i], k) = 1}) % 2

\* The frame of a ChannelEvent with the content 1, 255 was written.
C20_Witness == tx.sent /\ out_endpoint = <<164, 2, 64, 1, 255, 24>>

\* C21: a frame of which the link changed exactly one byte other than the
\* length byte (the sync byte, the id, a content byte or the checksum; one
\* changed byte never preserves the XOR value) is never returned as a
\* message, and once receiveMessage() has read its bytes the call has
\* thrown MessageChecksumError.
C21_ChangedByteDetected ==
    tx.sent /\ tx.changed \notin {0, 2} =>
        /\ rcv.pc # "returned"
        /\ in_endpoint = <<>> =>
              rcv.pc = "thrown" /\ rcv.in_message.class = "MessageChecksumError"

\* C22: however the stream cuts the bytes into chunks, receiveMessage() of
\* the open transport ends only by returning the first valid frame of the
\* stream, the one that was sent after the stray bytes: it does not throw
\* on it and returns no other message.
C22_FirstValidFrameReturned ==
    /\ rcv.pc = "thrown" => rcv.in_message.class = "NotOpenError"
    /\ rcv.pc = "returned" => encode(rcv.in_message) = out_endpoint

\* C23: the lifecycle of the transport.  open() on an open transport throws
\* AlreadyOpenError and leaves it open; close() on a transport that is not
\* open throws NotOpenError and leaves it closed; sendMessage() and
\* receiveMessage() on a transport that is not open throw NotOpenError and
\* neither write nor read a byte; and is_open, the value of isOpen(),
\* becomes true only when an open() succeeds and false only when a close()
\* succeeds.
C23_TransportLifecycle ==
    [][/\ drv' # drv /\ drv'.last = "open" /\ is_open =>
              /\ drv'.thrown = "AlreadyOpenError"
              /\ is_open'
              /\ drv'.opening = drv.opening
       /\ drv' # drv /\ drv'.last = "close" /\ ~is_open =>
              /\ drv'.thrown = "NotOpenError"
              /\ ~is_open'
              /\ closing' = closing
       /\ drv' # drv /\ drv'.last = "sendMessage" /\ ~is_open =>
              /\ drv'.thrown = "NotOpenError"
              /\ UNCHANGED <<tx, out_endpoint, in_endpoint>>
       /\ rcv.pc = "idle" /\ rcv'.pc # "idle" /\ ~is_open =>
              /\ rcv'.pc = "thrown"
              /\ rcv'.in_message.class = "NotOpenError"
              /\ UNCHANGED <<in_endpoint, data>>
       /\ ~is_open /\ is_open' => drv'.last = "opened"
       /\ is_open /\ ~is_open' => drv'.last = "closed"]_vars

\* C24: a checksum-valid frame whose id is none of Broadcast 0x4E, Startup
\* 0x6F, ChannelStatus 0x52, ChannelId 0x51 and ChannelEvent 0x40 never
\* makes the decoding fail: buildMessage returns a message of the generic
\* class Message with the id and the content of the frame.
C24_UnknownIdDecodesToGenericMessage ==
    tx.message.id \notin {78, 111, 82, 81, 64} =>
        /\ rcv.pc = "thrown" => rcv.in_message.class = "NotOpenError"
        /\ rcv.pc = "returned" =>
              /\ rcv.in_message.class = "Message"
              /\ rcv.in_message.id = tx.message.id
              /\ rcv.in_message.content = tx.message.content

\* The frame with the unknown id 255 and the content A4 00 was decoded.
C24_Witness ==
    /\ rcv.pc = "returned"
    /\ rcv.in_message = NewMessage("Message", 255, <<SYNC_BYTE, 0>>, TRUE)

\* C25: reply matching.  When a message is received with an entry pending,
\* the oldest entry is completed (taken off the pending table) as follows:
\* a Reset (0x4A) exactly when the message is a Startup (0x6F), so never by
\* a ChannelEvent (0x40); a configuration command, here SetNetworkKey
\* (0x46), by the ChannelEvent of channel 0 that names it with code 0x00
\* and by no ChannelEvent with another code; a Broadcast (0x4E) by a
\* ChannelEvent with code EVENT_TX (0x03) and not by one with code 0x00.
C25_ReplyMatching ==
    [][ev'.received # <<>> /\ pending # <<>> =>
          LET out == Head(pending).message
              in == ev'.received[1]
              completed == pending' = Tail(pending)
              event == in.id = 64
          IN /\ ~completed => pending' = pending
             /\ out.id = 74 => (completed <=> in.id = 111)
             /\ out.id = 70 =>
                   /\ event /\ in.c0 = 0 /\ in.c1 = 70 /\ in.c2 = 0 => completed
                   /\ event /\ in.c2 # 0 => ~completed
             /\ out.id = 78 =>
                   /\ event /\ in.c2 = 3 => completed
                   /\ event /\ in.c2 = 0 => ~completed]_vars

\* The oldest pending entry, a SetNetworkKey, was completed by its
\* ChannelEvent and its callback invoked while a Broadcast stays pending.
C25_Witness ==
    /\ ev.received = <<ChannelEvent(0, SetNetworkKeyMessageID, RESPONSE_NO_ERROR)>>
    /\ ev.fired # <<>>
    /\ pending # <<>>
    /\ Head(pending).message.id = BroadcastMessageID

\* C26: extended broadcast decoding.  A content of at most 9 bytes is not
\* extended; of an extended content the measurement type, the RSSI value,
\* the threshold configuration and the timestamp are read at their base
\* offsets 10, 11, 12 and 10, moved by 4 exactly when bit 0x80 of the flag
\* byte at offset 9 is set (the timestamp being the two bytes from there,
\* in either order); and with the flag byte 0xE0 hasChannelOutput, hasRSSI
\* and hasTimestamp are all true.
C26_ExtendedBroadcastDecoding ==
    LET content == rcv.in_message.content
    IN /\ decoded.class \in {"BroadcastMessage", "ExtendedBroadcast"} /\ Len(content) <= 9 =>
             ~decoded.isExtended
       /\ decoded.class = "ExtendedBroadcast" =>
             LET flag_byte == content[10]
                 moved == IF (flag_byte \div 128) % 2 = 1 THEN 4 ELSE 0
                 first == content[10 + moved + 1]
                 second == content[11 + moved + 1]
             IN /\ decoded.isExtended
                /\ decoded.measurement_type = content[10 + moved + 1]
                /\ decoded.rssi = content[11 + moved + 1]
                /\ decoded.threshold = content[12 + moved + 1]
                /\ decoded.timestamp \in {first * 256 + second, first + 256 * second}
                /\ flag_byte = 224 =>
                      /\ decoded.hasChannelOutput
                      /\ decoded.hasRSSI
                      /\ decoded.hasTimestamp

\* C27: the 16-bit fields are little-endian.  The frame of a
\* SetChannelPeriod with period p carries the content channel, p mod 256,
\* p div 256; the device number and the timestamp of an extended broadcast
\* and the device number of a ChannelId message are the first of their two
\* bytes plus 256 times the second.
C27_LittleEndianFields ==
    LET content == rcv.in_message.content
    IN /\ \A period \in Periods :
             tx.sent /\ tx.message = NewSetChannelPeriodMessage(period, 1) =>
                SubSeq(out_endpoint, 4, 6) = <<1, period % 256, period \div 256>>
       /\ decoded.class = "ExtendedBroadcast" =>
             /\ decoded.device_number = content[11] + 256 * content[12]
             /\ \E offset \in {0, 4, 7} :
                   decoded.timestamp = content[11 + offset] + 256 * content[12 + offset]
       /\ decoded.class = "ChannelIdMessage" =>
             decoded.device_number = content[2] + 256 * content[3]

\* C28: a button event of the head unit is dispatched to its listener
\* exactly when its code differs from the last dispatched code or at least
\* 1000 ms have passed since the last dispatch of that code: two events of
\* one code less than 1000 ms apart dispatch one, and the same code 1000 ms
\* or more after the last dispatch dispatches a second.  The code and the
\* instant of the last dispatch are the ones the trainer remembers.
C28_ButtonDeduplication ==
    [][\A button_code \in {BUTTON_LEFT, BUTTON_OK} :
          ProcessMessage(ButtonMessage(button_code)) =>
              (called' # <<>> <=>
                  \/ button_code # last_button_code
                  \/ clock - last_button_timestamp >= 1000)]_vars

\* The sign byte and the magnitude byte of the frame of the data message
\* that the step has appended to the outbound queue.
SlopeBytesQueued ==
    LET message_bytes == encode(out_queue'[Len(out_queue')].message)
    IN <<message_bytes[8], message_bytes[9]>>

\* C29, as the spec states it: with the range -5.0 % .. +20.0 %, the slope
\* -12.3 % is sent as sign 0xFF and magnitude 133, the slope +5.0 % as sign
\* 0x00 and magnitude 50, and a slope below or above the range as the bound
\* of the range.
C29_SlopeExamples ==
    [][ProcessMessage(ResumeMessage) =>
          /\ bushido_data.slope = -1230 => SlopeBytesQueued = <<255, 133>>
          /\ bushido_data.slope = 500 => SlopeBytesQueued = <<0, 50>>
          /\ bushido_data.slope < -500 => SlopeBytesQueued = <<255, 256 - 50>>
          /\ bushido_data.slope > 2000 => SlopeBytesQueued = <<0, 200>>]_vars

\* C29, amended: the slope -12.3 % lies below the range and is sent as the
\* lower bound -5.0 %, sign 0xFF and magnitude 206; the slope +5.0 % is sent
\* as sign 0x00 and magnitude 50; every slope below the range is sent as
\* (0xFF, 206) and every slope above it as (0x00, 200).
C29_SlopeExamplesClamped ==
    [][ProcessMessage(ResumeMessage) =>
          /\ bushido_data.slope = -1230 => SlopeBytesQueued = <<255, 206>>
          /\ bushido_data.slope = 500 => SlopeBytesQueued = <<0, 50>>
          /\ bushido_data.slope < -500 => SlopeBytesQueued = <<255, 256 - 50>>
          /\ bushido_data.slope > 2000 => SlopeBytesQueued = <<0, 200>>]_vars

\* The data message of the slope -12.3 % is queued with the bytes of -5.0 %.
C29_Witness ==
    /\ bushido_data.slope = -1230
    /\ called = <<"onResumed">>
    /\ \E i \in DOMAIN out_queue :
          /\ out_queue[i].message.class = "BushidoDataMessage"
          /\ at(out_queue[i].message.content, 4) = 255
          /\ at(out_queue[i].message.content, 5) = 206

\* The slope in tenths of a percent, a half of a tenth counted upwards, and
\* within -50 .. 200.
C30_Tenths(slope) ==
    LET tenths == CHOOSE t \in -400 .. 400 : 10 * t - 5 <= slope /\ slope < 10 * t + 5
    IN IF tenths < -50 THEN -50 ELSE IF tenths > 200 THEN 200 ELSE tenths

\* C30: for every slope, with v the slope in tenths of a percent within
\* -50 .. 200, the data message carries sign 0x00 and magnitude v when v >= 0
\* and sign 0xFF and magnitude 256 + v when v < 0, in its content and in its
\* frame; the magnitude is a byte.
C30_SlopeEncoding ==
    [][ProcessMessage(ResumeMessage) =>
          LET message == out_queue'[Len(out_queue')].message
              v == C30_Tenths(bushido_data.slope)
              sign_and_magnitude == IF v >= 0 THEN <<0, v>> ELSE <<255, 256 + v>>
          IN /\ message.class = "BushidoDataMessage"
             /\ Len(out_queue') = Len(out_queue) + 1
             /\ <<at(message.content, 4), at(message.content, 5)>> = sign_and_magnitude
             /\ SlopeBytesQueued = sign_and_magnitude
             /\ at(message.content, 5) \in 0 .. 255]_vars

\* The data message of the slope -4.95 % is queued: -49 tenths, sent as
\* sign 0xFF and magnitude 207.
C30_Witness ==
    /\ bushido_data.slope = -495
    /\ called = <<"onResumed">>
    /\ \E i \in DOMAIN out_queue :
          /\ out_queue[i].message.class = "BushidoDataMessage"
          /\ at(out_queue[i].message.content, 4) = 255
          /\ at(out_queue[i].message.content, 5) = 207

\* C31: the pending entry of a message with waitForReply true is registered
\* before its frame is written, and sendMessage writes the frame once: a
\* step that writes a frame leaves the entry of its message in the pending
\* table, the message was not written before and is written once, and an
\* entry leaves the pending table only in a step that receives a reply to
\* its message, so that every reply received after the write has begun
\* finds the entry in the table.
C31_RegisteredBeforeWrittenOnce ==
    [][/\ \A i \in DOMAIN ev'.written :
             LET m == ev'.written[i]
             IN /\ waitForReply(m) => \E k \in DOMAIN pending' : pending'[k].message = m
                /\ Transmissions(m) = 0
                /\ Cardinality({j \in DOMAIN q_wire' : q_wire'[j].message = m})
                   + Cardinality({f \in UNION {{<<s, j>> : j \in DOMAIN hs'[s].frames} :
                                                  s \in Sessions} :
                                    hs'[f[1]].frames[f[2]] = m}) = 1
                /\ \A j \in DOMAIN ev'.written : ev'.written[j] = m => j = i
       /\ \A k \in DOMAIN pending :
             (\A j \in DOMAIN pending' : pending'[j].message # pending[k].message) =>
                 /\ Len(ev'.received) = 1
                 /\ isReply(pending[k].message, ev'.received[1])]_vars

\* A reply is received after the frame of a queued message was written: it
\* finds the entry, which is the oldest, and the callback of the entry is
\* invoked.
C31_Witness ==
    /\ ev.received # <<>>
    /\ ev.fired # <<>>
    /\ \E k \in DOMAIN q_wire :
          /\ q_wire[k].callback = ev.fired[1]
          /\ waitForReply(q_wire[k].message)
          /\ isReply(q_wire[k].message, ev.received[1])

\* C32: on channel 0 a pause event sets the paused flag, sets speed, power
\* and cadence to zero, notifies the listeners and appends one Continue
\* command to the outbound queue; a resume event clears the paused flag,
\* notifies the listener and appends one data message with the slope and
\* the weight the trainer holds; no other step changes the paused flag.
C32_PauseAndResume ==
    [][/\ ProcessMessage(PauseMessage) =>
             /\ is_paused'
             /\ bushido_data' = [bushido_data EXCEPT !.speed = 0, !.power = 0, !.cadence = 0]
             /\ called' = <<"onDataUpdated", "onPaused">>
             /\ Len(out_queue') = Len(out_queue) + 1
             /\ SubSeq(out_queue', 1, Len(out_queue)) = out_queue
             /\ out_queue'[Len(out_queue')].message.class = "BushidoContinueMessage"
             /\ out_queue'[Len(out_queue')].message.content = <<0, 172, 3, 2, 0, 0, 0, 0, 0>>
       /\ ProcessMessage(ResumeMessage) =>
             LET message == out_queue'[Len(out_queue')].message
                 v == C30_Tenths(bushido_data.slope)
             IN /\ ~is_paused'
                /\ bushido_data' = bushido_data
                /\ called' = <<"onResumed">>
                /\ Len(out_queue') = Len(out_queue) + 1
                /\ SubSeq(out_queue', 1, Len(out_queue)) = out_queue
                /\ message.class = "BushidoDataMessage"
                /\ message.content = <<0, 220, 1, 0, IF v < 0 THEN 255 ELSE 0,
                                       IF v < 0 THEN 256 + v ELSE v,
                                       bushido_data.weight, 0, 0>>
       /\ is_paused' # is_paused =>
             ProcessMessage(PauseMessage) \/ ProcessMessage(ResumeMessage)]_vars

\* A ride was paused at speed and resumed: the queue holds the Continue
\* command and, behind it, the data message.
C32_Witness ==
    /\ ~is_paused
    /\ called = <<"onResumed">>
    /\ bushido_data.speed = 0
    /\ bushido_data.distance # 0
    /\ Len(out_queue) = 2
    /\ out_queue[1].message.class = "BushidoContinueMessage"
    /\ out_queue[2].message.class = "BushidoDataMessage"

\* C33: a connect() that fails, because the transport could not be opened
\* or because a transmission of its handshake raised, leaves the manager
\* disconnected: in the state after the step in which the handshake of the
\* call fails the connected flag is false, no cycle loop is running and the
\* pending table holds no entry of that handshake.
C33_FailedConnectLeavesDisconnected ==
    [][\A s \in Sessions :
          hs[s].pc # "failed" /\ hs'[s].pc = "failed" =>
              /\ ~connected'
              /\ \A r \in Sessions : cyc'[r] \notin {"tx", "rx", "timer"}
              /\ \A k \in DOMAIN pending' : pending'[k].message.src # s]_vars

\* C34: when the transmission of a message with waitForReply true fails,
\* the pending table is as it was before the sendMessage call: a step that
\* takes a queue entry and raises instead of writing its frame leaves no
\* pending entry for its message, and no callback is invoked of an entry
\* whose frame was never written.
C34_FailedSendLeavesNoPending ==
    [][/\ \A i \in DOMAIN ev'.dequeued :
             LET entry == ev'.dequeued[i]
             IN /\ waitForReply(entry.message)
                /\ \A j \in DOMAIN ev'.written : ev'.written[j] # entry.message
                => \A k \in DOMAIN pending' : pending'[k].message # entry.message
       /\ \A i \in DOMAIN ev'.fired :
             \E k \in DOMAIN q_wire : q_wire[k].callback = ev'.fired[i]]_vars

\* C35: a pending configuration command (one answered by a channel
\* response: neither Reset, a broadcast nor a request) is completed only
\* by the ChannelEvent that answers that very command: a receive removes
\* its entry from the pending table only if the message received is a
\* ChannelEvent with the code RESPONSE_NO_ERROR whose initiating message id
\* is the id of the command.
C35_CompletedByItsOwnResponse ==
    [][/\ ev'.received # <<>>
       /\ pending # <<>>
       /\ pending' = Tail(pending)
       /\ Head(pending).message.id \notin {ResetMessageID, BroadcastMessageID, RequestMessageID}
       => /\ ev'.received[1].id = ChannelEventID
          /\ getEventCode(ev'.received[1]) = RESPONSE_NO_ERROR
          /\ ev'.received[1].c1 = Head(pending).message.id]_vars

\* C36: after disconnect() has completed and until connect() is called
\* again, no inbound message is handed to processMessage and no callback of
\* a pending entry is invoked, also when a receive that was in flight at
\* the disconnect completes afterwards: a step that starts and ends with
\* the connected flag false, with no connect() call in progress, processes
\* nothing and invokes nothing.
C36_NothingDeliveredAfterDisconnect ==
    [][/\ ~connected
       /\ ~connected'
       /\ \A s \in Sessions : conn[s] # "opening"
       => ev'.processed = <<>> /\ ev'.fired = <<>>]_vars

\* C37: while the manager stays connected and the transport stays open and
\* returns every receive, every message appended by queueMessage is
\* eventually written to the transport: the n-th queueMessage call's entry,
\* once in the queue of a connected manager with an open transport, is
\* written unless the manager is disconnected or the transport is no longer
\* open.
C37_QueuedEventuallyTransmitted ==
    \A n \in 1..MaxCalls :
        (/\ connected
         /\ is_open
         /\ \E k \in DOMAIN out_queue : out_queue[k].message.tag = n)
        ~> (\/ \E k \in DOMAIN q_wire : q_wire[k].message.tag = n
            \/ ~connected
            \/ ~is_open)

\* A message queued while connected was written after an earlier entry of
\* the queue and a receive, with the manager still connected.
C37_Witness ==
    /\ connected
    /\ is_open
    /\ Len(q_wire) >= 2
    /\ out_queue = <<>>

\* C38: connect() eventually completes: when the transport opens, every
\* write completes and the device keeps answering the status requests with
\* TRACKING, the handshake of a connect() call that was made, the poll loop
\* of wait_until_tracking included, comes to its end, whichever of the
\* other frames (the Startup answering Reset, the channel responses) are
\* lost.
C38_ConnectCompletes == (conn[1] # "none") ~> (hs[1].pc = "done")

\* C39: a BushidoTrainer.disconnect() call made while the manager is not
\* connected fails with NotConnectedError: it queues nothing that a later
\* connect() would transmit and does not start to wait for an
\* acknowledgment.
C39_DisconnectWhileNotConnected ==
    [][(BushidoDisconnect /\ ~connected) =>
          /\ ev'.raised = <<"NotConnectedError">>
          /\ out_queue' = out_queue
          /\ disconnecting' = disconnecting]_vars

====
